---- MODULE Spec2Model ----
(***************************************************************************)
(* A model of gitlab-release (gitlab.com/tozd/gitlab/release): changelog   *)
(* releases, git tags, their comparison, the mapping of milestones,        *)
(* packages and Docker images to tags, and the Sync run against a GitLab   *)
(* project.                                                                *)
(*                                                                         *)
(* A Go string is a sequence of one-character strings; characters are      *)
(* ordered by their ASCII code, as Go orders bytes.                        *)
(***************************************************************************)
EXTENDS Integers, Sequences, FiniteSets, TLC

\* ------------------------------------------------------------------------
\* Strings
\* ------------------------------------------------------------------------

\* The printable ASCII characters, code 32 (space) to 126 (~), in order
\* ("<96>" stands for the grave accent, which cannot be written in a string).
Printable ==
    << " ", "!", "\"", "#", "$", "%", "&", "'", "(", ")", "*", "+", ",", "-", ".", "/",
       "0", "1", "2", "3", "4", "5", "6", "7", "8", "9", ":", ";", "<", "=", ">", "?",
       "@", "A", "B", "C", "D", "E", "F", "G", "H", "I", "J", "K", "L", "M", "N", "O",
       "P", "Q", "R", "S", "T", "U", "V", "W", "X", "Y", "Z", "[", "\\", "]", "^", "_",
       "<96>", "a", "b", "c", "d", "e", "f", "g", "h", "i", "j", "k", "l", "m", "n", "o",
       "p", "q", "r", "s", "t", "u", "v", "w", "x", "y", "z", "{", "|", "}", "~" >>

\* The byte value of a character ("\n" is 10).
Ord ==
    [c \in STRING |->
        IF c = "\n" THEN 10
        ELSE 31 + (CHOOSE i \in 1..Len(Printable) : Printable[i] = c)]

\* The ASCII letters, each capital with its small letter, and the digits.
Uppers ==
    << "A", "B", "C", "D", "E", "F", "G", "H", "I", "J", "K", "L", "M",
       "N", "O", "P", "Q", "R", "S", "T", "U", "V", "W", "X", "Y", "Z" >>

Lowers ==
    << "a", "b", "c", "d", "e", "f", "g", "h", "i", "j", "k", "l", "m",
       "n", "o", "p", "q", "r", "s", "t", "u", "v", "w", "x", "y", "z" >>

UpperLetters == {Uppers[k] : k \in 1..Len(Uppers)}

LowerLetters == {Lowers[k] : k \in 1..Len(Lowers)}

Digits == {"0", "1", "2", "3", "4", "5", "6", "7", "8", "9"}

\* The characters of [a-z0-9].
LowerAlnum == LowerLetters \cup Digits

Min(S) == CHOOSE x \in S : \A y \in S : x <= y

\* a < b on Go strings: bytewise lexicographic order.
StrLess(a, b) ==
    LET n == IF Len(a) < Len(b) THEN Len(a) ELSE Len(b)
        d == {i \in 1..n : a[i] # b[i]}
    IN  IF d = {} THEN Len(a) < Len(b)
        ELSE Ord[a[Min(d)]] < Ord[b[Min(d)]]

\* strings.HasPrefix
HasPrefix(s, p) == Len(s) >= Len(p) /\ SubSeq(s, 1, Len(p)) = p

\* strings.TrimPrefix
TrimPrefix(s, p) == IF HasPrefix(s, p) THEN SubSeq(s, Len(p) + 1, Len(s)) ELSE s

\* strings.Contains
Contains(s, t) == \E i \in 0..(Len(s) - Len(t)) : SubSeq(s, i + 1, i + Len(t)) = t

\* strings.ToLower on ASCII.
LowerChar(c) ==
    IF c \in UpperLetters THEN Lowers[CHOOSE k \in 1..Len(Uppers) : Uppers[k] = c] ELSE c

ToLower(s) == [i \in 1..Len(s) |-> LowerChar(s[i])]

\* strings.Join
Join(elems, sep) ==
    LET j[i \in 0..Len(elems)] ==
            IF i = 0 THEN <<>>
            ELSE IF i = 1 THEN elems[1]
            ELSE j[i - 1] \o sep \o elems[i]
    IN  j[Len(elems)]

Range(s) == {s[i] : i \in 1..Len(s)}

\* A stable sort of s by the strict order less, a function on the pairs of
\* elements of s (sort.Stable, sort.SliceStable): every element is put
\* behind the elements it is not less than.
SortStable(s, less) ==
    LET ins(acc, x) ==
            LET k == Cardinality({j \in 1..Len(acc) : ~less[x, acc[j]]})
            IN  SubSeq(acc, 1, k) \o <<x>> \o SubSeq(acc, k + 1, Len(acc))
        sorted[i \in 0..Len(s)] ==
            IF i = 0 THEN <<>> ELSE ins(sorted[i - 1], s[i])
    IN  sorted[Len(s)]

\* sort.StringSlice: the order of strings.
StringLess(s) == [a \in Range(s), b \in Range(s) |-> StrLess(a, b)]

\* The order of the second sort of the tags: a longer tag first.
LongerFirst(s) == [a \in Range(s), b \in Range(s) |-> Len(a) > Len(b)]

\* A slip in the sort of the packages: by ID.
VersionLessByID(s) == [p \in Range(s), q \in Range(s) |-> p.ID < q.ID]

\* The order of the sort of the packages: by version.
VersionLess(s) == [p \in Range(s), q \in Range(s) |-> StrLess(p.Version, q.Version)]

\* The elements of a set of strings as a sorted slice (ToSlice, slices.Sort).
SortedSlice(S) ==
    LET pick[T \in SUBSET S] ==
            IF T = {} THEN <<>>
            ELSE LET m == CHOOSE x \in T : \A y \in T : x = y \/ StrLess(x, y)
                 IN  <<m>> \o pick[T \ {m}]
    IN  pick[S]

\* A Go pointer or error value: Nil, or Some(x).
Nil == <<>>

Some(x) == <<x>>

\* ------------------------------------------------------------------------
\* utils.go
\* ------------------------------------------------------------------------

slugMaxLength == 63

\* A slip in slugCleanupRegex: [^a-z0-9]+ replaces a run of characters by
\* one "-".
SlugCleanupRuns(s) ==
    LET alnum(c) == c \in LowerAlnum
        r[k \in 0..Len(s)] ==
            IF k = 0 THEN <<>>
            ELSE IF alnum(s[k]) THEN Append(r[k - 1], s[k])
            ELSE IF k > 1 /\ ~alnum(s[k - 1]) THEN r[k - 1]
            ELSE Append(r[k - 1], "-")
    IN  r[Len(s)]

\* slugCleanupRegex.ReplaceAllString(s, "-"): every character outside
\* [a-z0-9] is replaced by "-".
SlugCleanup(s) ==
    [i \in 1..Len(s) |-> IF s[i] \in LowerAlnum THEN s[i] ELSE "-"]

\* A slip in slugTrimRegex: only one "-" is removed at either end.
SlugTrimOne(s) ==
    LET a == IF Len(s) > 0 /\ s[1] = "-" THEN Tail(s) ELSE s
    IN  IF Len(a) > 0 /\ a[Len(a)] = "-" THEN SubSeq(a, 1, Len(a) - 1) ELSE a

\* slugTrimRegex.ReplaceAllString(s, ""): the leading and the trailing run
\* of "-" are removed.
SlugTrim(s) ==
    LET keep == {i \in 1..Len(s) : s[i] # "-"}
    IN  IF keep = {} THEN <<>>
        ELSE SubSeq(s, Min(keep), CHOOSE i \in keep : \A j \in keep : j <= i)

\* A slip in refSlug: the string is trimmed before it is cut, not after.
refSlugTrimsFirst(s) ==
    LET s1 == SlugTrim(SlugCleanup(ToLower(s)))
    IN  IF Len(s1) > slugMaxLength THEN SubSeq(s1, 1, slugMaxLength) ELSE s1

refSlug(s) ==
    LET s1 == SlugCleanup(ToLower(s))
        s2 == IF Len(s1) > slugMaxLength THEN SubSeq(s1, 1, slugMaxLength) ELSE s1
    IN  SlugTrim(s2)

\* ------------------------------------------------------------------------
\* release.go: changelog releases, git tags, their comparison
\* ------------------------------------------------------------------------

\* Release{Tag, Changes, Yanked}
Release(tag, changes, yanked) == [Tag |-> tag, Changes |-> changes, Yanked |-> yanked]

\* Tag{Name, Date}
Tag(name, date) == [Name |-> name, Date |-> date]

\* An error with a message and its details.
Error(msg, details) == Some([msg |-> msg, details |-> details])

\* A slip in the test for an unreleased entry: the version is not lowercased.
IsUnreleasedCaseSensitive(version) ==
    version = <<"u", "n", "r", "e", "l", "e", "a", "s", "e", "d">>

\* strings.ToLower(release.Version) == "unreleased"
IsUnreleased(version) ==
    ToLower(version) = <<"u", "n", "r", "e", "l", "e", "a", "s", "e", "d">>

\* changelogReleases on a changelog file: file.readable and file.parses say
\* whether os.Open and changelog.Parse succeed, file.Releases is what the
\* parser returns (Version, Date as a pointer, Body, Yanked).
changelogReleases(file) ==
    IF ~file.readable THEN [releases |-> <<>>, err |-> Error("cannot read changelog", <<>>)]
    ELSE IF ~file.parses THEN [releases |-> <<>>, err |-> Error("cannot parse changelog", <<>>)]
    ELSE
    LET c == file.Releases
        loop[i \in 0..Len(c)] ==
            IF i = 0 THEN [releases |-> <<>>, err |-> Nil]
            ELSE
            LET acc == loop[i - 1]
                release == c[i]
            IN  IF acc.err # Nil THEN acc
                ELSE IF IsUnreleased(release.Version)
                THEN acc
                ELSE IF HasPrefix(release.Version, <<"v">>)
                THEN [releases |-> <<>>,
                      err |-> Error("release in the changelog starts with \"v\", but it should not",
                                    release.Version)]
                ELSE IF release.Date = Nil
                THEN [releases |-> <<>>,
                      err |-> Error("release in the changelog is missing date", release.Version)]
                ELSE [releases |-> Append(acc.releases,
                                          Release(<<"v">> \o release.Version,
                                                  Join(Tail(release.Body), <<"\n">>),
                                                  release.Yanked)),
                      err |-> Nil]
    IN  loop[Len(c)]

\* A slip in compareReleasesTags: the git tags that are not among the
\* changelog releases are not looked for.
compareReleasesTagsOneWay(releases, tags) ==
    LET allReleases == {releases[i].Tag : i \in 1..Len(releases)}
        allTags == {tags[i].Name : i \in 1..Len(tags)}
        extraReleases == allReleases \ allTags
    IN  IF Cardinality(extraReleases) > 0
        THEN Error("found changelog releases not among git tags",
                   [releases |-> SortedSlice(extraReleases)])
        ELSE Nil

\* A slip in compareReleasesTags: the changelog releases that are not among
\* the git tags are not looked for.
compareReleasesTagsTagsOnly(releases, tags) ==
    LET allReleases == {releases[i].Tag : i \in 1..Len(releases)}
        allTags == {tags[i].Name : i \in 1..Len(tags)}
        extraTags == allTags \ allReleases
    IN  IF Cardinality(extraTags) > 0
        THEN Error("found git tags not among changelog releases",
                   [tags |-> SortedSlice(extraTags)])
        ELSE Nil

\* A slip in compareReleasesTags: the git tags are looked at first.
compareReleasesTagsTagsFirst(releases, tags) ==
    LET allReleases == {releases[i].Tag : i \in 1..Len(releases)}
        allTags == {tags[i].Name : i \in 1..Len(tags)}
        extraReleases == allReleases \ allTags
        extraTags == allTags \ allReleases
    IN  IF Cardinality(extraTags) > 0
        THEN Error("found git tags not among changelog releases",
                   [tags |-> SortedSlice(extraTags)])
        ELSE IF Cardinality(extraReleases) > 0
        THEN Error("found changelog releases not among git tags",
                   [releases |-> SortedSlice(extraReleases)])
        ELSE Nil

\* compareReleasesTags returns an error if all releases do not exactly match
\* all tags.
compareReleasesTags(releases, tags) ==
    LET allReleases == {releases[i].Tag : i \in 1..Len(releases)}
        allTags == {tags[i].Name : i \in 1..Len(tags)}
        extraReleases == allReleases \ allTags
        extraTags == allTags \ allReleases
    IN  IF Cardinality(extraReleases) > 0
        THEN Error("found changelog releases not among git tags",
                   [releases |-> SortedSlice(extraReleases)])
        ELSE IF Cardinality(extraTags) > 0
        THEN Error("found git tags not among changelog releases",
                   [tags |-> SortedSlice(extraTags)])
        ELSE Nil

\* mapTagsToDates: the date of the last tag of each name.
mapTagsToDates(tags) ==
    [n \in {tags[i].Name : i \in 1..Len(tags)} |->
        Some(tags[CHOOSE i \in 1..Len(tags) :
                    tags[i].Name = n /\ \A j \in 1..Len(tags) : tags[j].Name = n => j <= i].Date)]

\* ------------------------------------------------------------------------
\* release.go: mapping of strings and packages to tags
\* ------------------------------------------------------------------------

noChange(s) == s

removeVPrefix(s) == TrimPrefix(s, <<"v">>)

slugify(s) == refSlug(s)

removeVPrefixAndSlugify(s) == refSlug(removeVPrefix(s))

tagTransformations == <<"noChange", "removeVPrefix", "slugify", "removeVPrefixAndSlugify">>

\* The application of the transformation of that name.
Transformation(name, s) ==
    CASE name = "noChange" -> noChange(s)
      [] name = "removeVPrefix" -> removeVPrefix(s)
      [] name = "slugify" -> slugify(s)
      [] name = "removeVPrefixAndSlugify" -> removeVPrefixAndSlugify(s)

\* A slip in the sorts of the tags: the sort by length is missing.
SortedTagsNotByLength(releases) ==
    LET tags == [i \in 1..Len(releases) |-> releases[i].Tag]
    IN  SortStable(tags, StringLess(tags))

\* The tags of the releases, sorted, then stably sorted by descending length.
SortedTags(releases) ==
    LET tags == [i \in 1..Len(releases) |-> releases[i].Tag]
        sorted == SortStable(tags, StringLess(tags))
    IN  SortStable(sorted, LongerFirst(sorted))

\* The empty result and the empty set of assigned inputs.
MapInit == [tagsToInputs |-> <<>>, assigned |-> {}]

\* A slip in the append to the list of a tag: the input is put in front.
MapAppendInFront(m, tag, input) ==
    IF tag \in DOMAIN m
    THEN [m EXCEPT ![tag] = <<input>> \o @]
    ELSE [x \in (DOMAIN m) \cup {tag} |-> IF x = tag THEN <<input>> ELSE m[x]]

\* tagsToInputs[tag] = append(tagsToInputs[tag], input)
MapAppend(m, tag, input) ==
    IF tag \in DOMAIN m
    THEN [m EXCEPT ![tag] = Append(@, input)]
    ELSE [x \in (DOMAIN m) \cup {tag} |-> IF x = tag THEN <<input>> ELSE m[x]]

\* A slip in the loop over inputs: an assigned input is not skipped.
StringsInputAgain(st, tag, t, input) ==
    IF Contains(input, t)
    THEN [tagsToInputs |-> MapAppend(st.tagsToInputs, tag, input),
          assigned |-> st.assigned \cup {input}]
    ELSE st

\* The body of the loop over inputs in mapStringsToTags.
StringsInput(st, tag, t, input) ==
    IF input \in st.assigned THEN st
    ELSE IF Contains(input, t)
    THEN [tagsToInputs |-> MapAppend(st.tagsToInputs, tag, input),
          assigned |-> st.assigned \cup {input}]
    ELSE st

\* The body of the loop over packages in mapPackagesToTags.
PackagesInput(st, tag, t, p) ==
    IF p.ID \in st.assigned THEN st
    ELSE IF Contains(p.Version, t)
    THEN [tagsToInputs |-> MapAppend(st.tagsToInputs, tag, p),
          assigned |-> st.assigned \cup {p.ID}]
    ELSE st

\* The k-th iteration (k = 1..4*Len(tags)) of the two outer loops of
\* mapStringsToTags (variant "strings") or mapPackagesToTags (variant
\* "packages"): one transformation, one tag, all inputs.
MapTagStep(variant, st, inputs, tags, k) ==
    LET tag == tags[((k - 1) % Len(tags)) + 1]
        t == Transformation(tagTransformations[((k - 1) \div Len(tags)) + 1], tag)
        f[i \in 0..Len(inputs)] ==
            IF i = 0 THEN st
            ELSE IF variant = "strings" THEN StringsInput(f[i - 1], tag, t, inputs[i])
            ELSE PackagesInput(f[i - 1], tag, t, inputs[i])
    IN  f[Len(inputs)]

\* All iterations of the outer loops.
MapLoops(variant, inputs, tags) ==
    LET g[k \in 0..(Len(tagTransformations) * Len(tags))] ==
            IF k = 0 THEN MapInit ELSE MapTagStep(variant, g[k - 1], inputs, tags, k)
    IN  g[Len(tagTransformations) * Len(tags)]

mapStringsToTags(inputs, releases) ==
    MapLoops("strings", SortStable(inputs, StringLess(inputs)),
             SortedTags(releases)).tagsToInputs

mapPackagesToTags(packages, releases) ==
    MapLoops("packages",
             SortStable(packages, VersionLess(packages)),
             SortedTags(releases)).tagsToInputs

mapMilestonesToTags(milestones, releases) == mapStringsToTags(milestones, releases)

mapImagesToTags(images, releases) == mapStringsToTags(images, releases)

\* m[k] of a Go map: the zero value (a nil slice) for a missing key.
MapGet(m, k) == IF k \in DOMAIN m THEN m[k] ELSE <<>>

\* A git tag reference of the repository: an annotated tag carries the
\* tagger's signature, and every tag points to a commit with an author and
\* a committer signature.
Ref(name, annotated, tagger, author, committer) ==
    [Name |-> name, Annotated |-> annotated, Tagger |-> tagger,
     Author |-> author, Committer |-> committer]

\* A slip in gitTags: a lightweight tag gets the date of the author of its
\* commit.
gitTagsAuthor(repo) ==
    IF ~repo.opens THEN [tags |-> <<>>, err |-> Error("cannot open git repository", <<>>)]
    ELSE [tags |-> [k \in 1..Len(repo.Refs) |->
                      IF repo.Refs[k].Annotated
                      THEN Tag(repo.Refs[k].Name, repo.Refs[k].Tagger)
                      ELSE Tag(repo.Refs[k].Name, repo.Refs[k].Author)],
          err |-> Nil]

\* gitTags on a repository: repo.opens says whether the repository can be
\* opened, repo.Refs are its tag references.
gitTags(repo) ==
    IF ~repo.opens THEN [tags |-> <<>>, err |-> Error("cannot open git repository", <<>>)]
    ELSE [tags |-> [k \in 1..Len(repo.Refs) |->
                      IF repo.Refs[k].Annotated
                      THEN Tag(repo.Refs[k].Name, repo.Refs[k].Tagger)
                      ELSE Tag(repo.Refs[k].Name, repo.Refs[k].Committer)],
          err |-> Nil]

\* ------------------------------------------------------------------------
\* release.go: release links
\* ------------------------------------------------------------------------

\* Package{ID, Generic, WebPath, Name, Version, Files}
Package(id, generic, webPath, name, version, files) ==
    [ID |-> id, Generic |-> generic, WebPath |-> webPath, Name |-> name,
     Version |-> version, Files |-> files]

HexDigits == <<"0", "1", "2", "3", "4", "5", "6", "7", "8", "9", "A", "B", "C", "D", "E", "F">>

\* url.PathEscape of one character: unreserved characters and $&+:=@ are
\* kept, every other one is percent-encoded.
EscapeChar(c) ==
    IF \/ c \in LowerAlnum \/ c \in UpperLetters
       \/ c \in {"-", "_", ".", "~", "$", "&", "+", ":", "=", "@"}
    THEN <<c>>
    ELSE LET o == Ord[c]
         IN  <<"%", HexDigits[(o \div 16) + 1], HexDigits[(o % 16) + 1]>>

\* gitlab.PathEscape: url.PathEscape, and then "." replaced by "%2E".
PathEscape(s) ==
    LET e[i \in 0..Len(s)] ==
            IF i = 0 THEN <<>>
            ELSE e[i - 1] \o (IF s[i] = "." THEN <<"%", "2", "E">> ELSE EscapeChar(s[i]))
    IN  e[Len(s)]

createReleaseLinkOptions(baseURL, projectID, name, l) ==
    IF l.File = Nil
    THEN [Name |-> name, URL |-> baseURL \o l.Package[1].WebPath,
          FilePath |-> Nil, LinkType |-> "package"]
    ELSE [Name |-> name,
          URL |-> baseURL \o <<"/api/v4/projects/">> \o PathEscape(projectID)
                    \o <<"/packages/generic/">> \o PathEscape(l.Package[1].Name)
                    \o <<"/">> \o PathEscape(l.Package[1].Version)
                    \o <<"/">> \o PathEscape(l.File[1]),
          FilePath |-> Some(<<"/">> \o name), LinkType |-> "other"]

\* The gitlab.UpdateReleaseLinkOptions built in syncLinks for an expected
\* link that exists.
updateReleaseLinkOptions(baseURL, projectID, name, l) ==
    IF l.File = Nil
    THEN [Name |-> name, URL |-> baseURL \o l.Package[1].WebPath,
          FilePath |-> Nil, LinkType |-> "package"]
    ELSE [Name |-> name,
          URL |-> baseURL \o <<"/api/v4/projects/">> \o PathEscape(projectID)
                    \o <<"/packages/generic/">> \o PathEscape(l.Package[1].Name)
                    \o <<"/">> \o PathEscape(l.Package[1].Version)
                    \o <<"/">> \o PathEscape(l.File[1]),
          FilePath |-> Some(<<"/">> \o name), LinkType |-> "other"]

\* The name of the link of the j-th file of a generic package.
FileLinkName(p, j) == p.Name \o <<"/">> \o p.Files[j]

\* getExpectedLinks: a map from link name to link, a later package or file
\* replacing an earlier one of the same name.
getExpectedLinks(packages) ==
    LET named(i) ==
            IF packages[i].Generic
            THEN {FileLinkName(packages[i], j) : j \in 1..Len(packages[i].Files)}
            ELSE {packages[i].Name}
        names == UNION {named(i) : i \in 1..Len(packages)}
        last(name) == CHOOSE i \in 1..Len(packages) :
                        name \in named(i) /\ \A k \in 1..Len(packages) : name \in named(k) => k <= i
        lastFile(p, name) == CHOOSE j \in 1..Len(p.Files) :
                        FileLinkName(p, j) = name
                        /\ \A k \in 1..Len(p.Files) : FileLinkName(p, k) = name => k <= j
    IN  [name \in names |->
            LET p == packages[last(name)]
            IN  [Name |-> name, ID |-> Nil, Package |-> Some(p),
                 File |-> IF p.Generic THEN Some(p.Files[lastFile(p, name)]) ELSE Nil]]

\* ------------------------------------------------------------------------
\* The state
\* ------------------------------------------------------------------------

VARIABLES
    pc,                   \* the position of the run
    file,                 \* the changelog file
    repo,                 \* the git repository
    config,               \* Config
    now,                  \* the current time, in hours
    gitlab,               \* the GitLab project: its releases and their links
    releases,             \* Sync: releases
    tags,                 \* Sync: tags
    errE,                 \* the error returned, if any
    calls,                \* the GitLab API calls issued, in order
    has,                  \* Sync: hasIssues, hasPackages, hasImages
    tagsToMilestones,     \* Sync: tagsToMilestones
    tagsToPackages,       \* Sync: tagsToPackages
    tagsToImages,         \* Sync: tagsToImages
    tagsToDates,          \* Sync: tagsToDates
    i,                    \* Sync: the index of the release being upserted
    rel,                  \* Upsert: rel, the release GetRelease returned
    links,                \* syncLinks: existingLinks, expectedLinks, loop positions
    extraGitLabReleases,  \* DeleteAllExcept: the releases still to delete
    inputs,               \* mapStringsToTags, mapPackagesToTags: inputs, packages
    variant,              \* which of the two mapping functions runs
    mtags,                \* mapStringsToTags, mapPackagesToTags: tags
    mk,                   \* the iterations of the outer loops done
    mst,                  \* tagsToInputs and assignedInputs
    slugs                 \* a string, and what slugify made of it, applied again

vars == <<pc, file, repo, config, now, gitlab, releases, tags, errE, calls, has,
          tagsToMilestones, tagsToPackages, tagsToImages, tagsToDates, i, rel, links,
          extraGitLabReleases, inputs, variant, mtags, mk, mst, slugs>>

mapVars == <<inputs, variant, mtags, mk, mst, slugs>>

envVars == <<file, repo, config, now>>

\* All sequences over S of length at most n.
SeqsUpTo(S, n) == UNION {[1..m -> S] : m \in 0..n}

\* ------------------------------------------------------------------------
\* Values the runs are checked on
\* ------------------------------------------------------------------------

MaxEntries == 2

MaxRefs == 2

S100 == <<"1", ".", "0", ".", "0">>

S100rc == <<"1", ".", "0", ".", "0", "-", "r", "c">>

S200 == <<"2", ".", "0", ".", "0">>

V(s) == <<"v">> \o s

Unreleased == <<"U", "n", "r", "e", "l", "e", "a", "s", "e", "d">>

\* An entry of the parsed changelog.
Entry(version, date, body, yanked) ==
    [Version |-> version, Date |-> date, Body |-> body, Yanked |-> yanked]

Heading == <<"#", "#">>

SyncEntries ==
    { Entry(S100, Some(10), <<Heading, <<"a">>, <<"b">> >>, FALSE),
      Entry(S100rc, Some(5), <<Heading, <<"c">> >>, TRUE),
      Entry(V(S100), Some(10), <<Heading>>, FALSE),
      Entry(S200, Nil, <<Heading>>, FALSE),
      Entry(Unreleased, Nil, <<Heading>>, FALSE) }

SyncFiles ==
    {[readable |-> TRUE, parses |-> TRUE, Releases |-> c] : c \in SeqsUpTo(SyncEntries, MaxEntries)}
    \cup {[readable |-> FALSE, parses |-> FALSE, Releases |-> <<>>],
          [readable |-> TRUE, parses |-> FALSE, Releases |-> <<>>]}

\* Tag references: an annotated old tag, a lightweight tag on a commit
\* authored long ago and committed recently, a lightweight old tag.
SyncRefs ==
    { Ref(V(S100), TRUE, 10, 8, 9),
      Ref(V(S100), FALSE, 0, 10, 95),
      Ref(V(S100rc), FALSE, 0, 5, 5) }

\* A repository has one tag reference of a name.
SyncRepos ==
    {[opens |-> TRUE, Refs |-> r] :
        r \in {q \in SeqsUpTo(SyncRefs, MaxRefs) :
                 \A a, b \in 1..Len(q) : q[a].Name = q[b].Name => a = b}}
    \cup {[opens |-> FALSE, Refs |-> <<>>]}

BaseURL == <<"h", "t", "t", "p", ":", "/", "/", "g">>

ProjectID == <<"g", "/", "p">>

SyncConfigs ==
    { [Project |-> ProjectID, BaseURL |-> BaseURL, NoCreate |-> FALSE],
      [Project |-> ProjectID, BaseURL |-> BaseURL \o <<"/">>, NoCreate |-> TRUE],
      [Project |-> <<>>, BaseURL |-> BaseURL, NoCreate |-> FALSE] }

\* A release link of the GitLab project.
RemoteLink(id, o) ==
    [ID |-> id, Name |-> o.Name, URL |-> o.URL, FilePath |-> o.FilePath, LinkType |-> o.LinkType]

\* A release of the GitLab project.
RemoteRelease(name, description, milestones, createdAt, releasedAt, ls) ==
    [Name |-> name, Description |-> description, Milestones |-> milestones,
     CreatedAt |-> createdAt, ReleasedAt |-> releasedAt, Links |-> ls]

StaleLink == [Name |-> <<"o", "l", "d">>, URL |-> <<"u">>, FilePath |-> Nil, LinkType |-> "other"]

AppLink == [Name |-> <<"a", "p", "p", "/", "x">>, URL |-> <<"u">>, FilePath |-> Nil, LinkType |-> "other"]

\* The releases the GitLab project may have before the run.
SyncRemotes ==
    LET old == RemoteRelease(<<"o">>, <<"o">>, <<>>, 11, 11, {})
        linked == RemoteRelease(<<"o">>, <<"o">>, <<>>, 50, 50,
                                {RemoteLink(1, StaleLink), RemoteLink(2, AppLink)})
        v100 == {<<>>, V(S100) :> old, V(S100) :> linked}
        v090 == {<<>>, V(<<"0", ".", "9">>) :> old}
        v080 == {<<>>, V(<<"0", ".", "8">>) :> old}
    IN  {[releases |-> a @@ b @@ c] : a \in v100, b \in v090, c \in v080}

\* What the project lists: milestone titles, packages, Docker images.
SyncMilestones == {<< S100rc, S100 >>}

SyncPackages ==
    { << Package(1, TRUE, <<"/", "p", "/", "1">>, <<"a", "p", "p">>, S100, << <<"x">>, <<"y">> >>) >>,
      << Package(2, FALSE, <<"/", "p", "/", "2">>, <<"n", "p", "m", "/", "l", "i", "b">>, S100rc, <<>>),
         Package(3, TRUE, <<"/", "p", "/", "3">>, <<"a", "p", "p">>, V(S200), << <<"x">> >>) >> }

SyncImages == {<< <<"r", "/", "i", ":">> \o S100 >>}

Nows == {100}

\* ------------------------------------------------------------------------
\* Sync
\* ------------------------------------------------------------------------

\* A GitLab API call: the operation, the index of the release whose Upsert
\* issued it (0 outside Upsert), what it is about, its options, and how it
\* ended.
Call(op, idx, target, result) ==
    [op |-> op, i |-> idx, target |-> target, options |-> <<>>, result |-> result]

\* A call with options.
CallWith(op, idx, target, options, result) ==
    [op |-> op, i |-> idx, target |-> target, options |-> options, result |-> result]

NoLinks == [existingLinks |-> <<>>, expectedLinks |-> <<>>, toDelete |-> {}, toWrite |-> {}]

NoFlags == [hasIssues |-> FALSE, hasPackages |-> FALSE, hasImages |-> FALSE]

\* The state of the locals before anything ran.
InitLocals ==
    /\ releases = <<>>
    /\ tags = <<>>
    /\ errE = Nil
    /\ calls = <<>>
    /\ has = NoFlags
    /\ tagsToMilestones = <<>>
    /\ tagsToPackages = <<>>
    /\ tagsToImages = <<>>
    /\ tagsToDates = <<>>
    /\ i = 0
    /\ rel = Nil
    /\ links = NoLinks
    /\ extraGitLabReleases = <<>>

InitMap ==
    /\ inputs = <<>>
    /\ variant = "strings"
    /\ mtags = <<>>
    /\ mk = 0
    /\ mst = MapInit
    /\ slugs = <<>>

Init ==
    /\ pc = "changelogReleases"
    /\ file \in SyncFiles
    /\ repo \in SyncRepos
    /\ config \in SyncConfigs
    /\ now \in Nows
    /\ gitlab \in SyncRemotes
    /\ InitLocals
    /\ InitMap

\* Sync returns errE.
Return(e) ==
    /\ errE' = e
    /\ pc' = "returned"

\* releases, errE := changelogReleases(config.Changelog)
SyncChangelogReleases ==
    /\ pc = "changelogReleases"
    /\ LET r == changelogReleases(file)
       IN  IF r.err # Nil
           THEN Return(r.err) /\ UNCHANGED releases
           ELSE releases' = r.releases /\ pc' = "gitTags" /\ UNCHANGED errE
    /\ UNCHANGED <<envVars, gitlab, tags, calls, has, tagsToMilestones, tagsToPackages,
                   tagsToImages, tagsToDates, i, rel, links, extraGitLabReleases, mapVars>>

\* tags, errE := gitTags(".")
SyncGitTags ==
    /\ pc = "gitTags"
    /\ LET r == gitTags(repo)
       IN  IF r.err # Nil
           THEN Return(r.err) /\ UNCHANGED tags
           ELSE tags' = r.tags /\ pc' = "compareReleasesTags" /\ UNCHANGED errE
    /\ UNCHANGED <<envVars, gitlab, releases, calls, has, tagsToMilestones, tagsToPackages,
                   tagsToImages, tagsToDates, i, rel, links, extraGitLabReleases, mapVars>>

\* A slip in Sync: the error of compareReleasesTags is kept, and Sync does
\* not return.
SyncCompareReleasesTagsGoesOn ==
    /\ pc = "compareReleasesTags"
    /\ errE' = compareReleasesTags(releases, tags)
    /\ pc' = "InferGitLabProjectID"
    /\ UNCHANGED <<envVars, gitlab, releases, tags, calls, has, tagsToMilestones,
                   tagsToPackages, tagsToImages, tagsToDates, i, rel, links,
                   extraGitLabReleases, mapVars>>

\* errE = compareReleasesTags(releases, tags)
SyncCompareReleasesTags ==
    /\ pc = "compareReleasesTags"
    /\ LET e == compareReleasesTags(releases, tags)
       IN  IF e # Nil THEN Return(e) ELSE pc' = "InferGitLabProjectID" /\ UNCHANGED errE
    /\ UNCHANGED <<envVars, gitlab, releases, tags, calls, has, tagsToMilestones,
                   tagsToPackages, tagsToImages, tagsToDates, i, rel, links,
                   extraGitLabReleases, mapVars>>

\* If config.Project is empty it is inferred from the "origin" remote of the
\* repository, which can fail; then the API client is made.
SyncInferGitLabProjectID ==
    /\ pc = "InferGitLabProjectID"
    /\ IF config.Project = <<>>
       THEN \/ Return(Error("cannot infer GitLab project", <<>>)) /\ UNCHANGED config
            \/ config' = [config EXCEPT !.Project = ProjectID]
               /\ pc' = "projectConfiguration" /\ UNCHANGED errE
       ELSE pc' = "projectConfiguration" /\ UNCHANGED <<errE, config>>
    /\ UNCHANGED <<file, repo, now, gitlab, releases, tags, calls, has, tagsToMilestones,
                   tagsToPackages, tagsToImages, tagsToDates, i, rel, links,
                   extraGitLabReleases, mapVars>>

\* projectConfiguration: GetProject, and the three flags from the access
\* levels of the project.
projectConfiguration(project) ==
    [hasIssues |-> project.IssuesAccessLevel # "disabled",
     hasPackages |-> project.RepositoryAccessLevel # "disabled" /\ project.PackagesEnabled,
     hasImages |-> project.ContainerRegistryAccessLevel # "disabled"]

AccessLevels == {"disabled", "enabled"}

Projects ==
    [IssuesAccessLevel : AccessLevels, RepositoryAccessLevel : AccessLevels,
     PackagesEnabled : BOOLEAN, ContainerRegistryAccessLevel : AccessLevels]

\* hasIssues, hasPackages, hasImages, errE := projectConfiguration(client, config.Project)
SyncProjectConfiguration ==
    /\ pc = "projectConfiguration"
    /\ \/ /\ calls' = Append(calls, Call("GetProject", 0, config.Project, "error"))
          /\ Return(Error("failed to get GitLab project", <<>>))
          /\ UNCHANGED has
       \/ \E project \in Projects :
            /\ calls' = Append(calls, Call("GetProject", 0, config.Project, "ok"))
            /\ has' = projectConfiguration(project)
            /\ pc' = "projectMilestones"
            /\ UNCHANGED errE
    /\ UNCHANGED <<envVars, gitlab, releases, tags, tagsToMilestones, tagsToPackages,
                   tagsToImages, tagsToDates, i, rel, links, extraGitLabReleases, mapVars>>

\* A slip in Sync: the milestones are listed whether issues are enabled or
\* not.
SyncProjectMilestonesAlways ==
    /\ pc = "projectMilestones"
    /\ \/ /\ calls' = Append(calls, Call("ListMilestones", 0, config.Project, "error"))
          /\ Return(Error("failed to list GitLab milestones", [page |-> 1]))
          /\ UNCHANGED tagsToMilestones
       \/ \E milestones \in SyncMilestones :
            /\ calls' = Append(calls, Call("ListMilestones", 0, config.Project, "ok"))
            /\ tagsToMilestones' = mapMilestonesToTags(milestones, releases)
            /\ pc' = "projectPackages"
            /\ UNCHANGED errE
    /\ UNCHANGED <<envVars, gitlab, releases, tags, has, tagsToPackages, tagsToImages,
                   tagsToDates, i, rel, links, extraGitLabReleases, mapVars>>

\* if hasIssues: projectMilestones (ListMilestones, all pages) and
\* mapMilestonesToTags.
SyncProjectMilestones ==
    /\ pc = "projectMilestones"
    /\ IF has.hasIssues
       THEN \/ /\ calls' = Append(calls, Call("ListMilestones", 0, config.Project, "error"))
               /\ Return(Error("failed to list GitLab milestones", [page |-> 1]))
               /\ UNCHANGED tagsToMilestones
            \/ \E milestones \in SyncMilestones :
                 /\ calls' = Append(calls, Call("ListMilestones", 0, config.Project, "ok"))
                 /\ tagsToMilestones' = mapMilestonesToTags(milestones, releases)
                 /\ pc' = "projectPackages"
                 /\ UNCHANGED errE
       ELSE pc' = "projectPackages" /\ UNCHANGED <<calls, errE, tagsToMilestones>>
    /\ UNCHANGED <<envVars, gitlab, releases, tags, has, tagsToPackages, tagsToImages,
                   tagsToDates, i, rel, links, extraGitLabReleases, mapVars>>

\* The calls of projectPackages: ListProjectPackages and, for every generic
\* package, ListPackageFiles.
PackagesCalls(packages) ==
    LET c[k \in 0..Len(packages)] ==
            IF k = 0 THEN <<Call("ListProjectPackages", 0, config.Project, "ok")>>
            ELSE IF packages[k].Generic
            THEN Append(c[k - 1], Call("ListPackageFiles", 0, packages[k].Name, "ok"))
            ELSE c[k - 1]
    IN  c[Len(packages)]

\* if hasPackages: projectPackages and mapPackagesToTags.
SyncProjectPackages ==
    /\ pc = "projectPackages"
    /\ IF has.hasPackages
       THEN \/ /\ calls' = Append(calls, Call("ListProjectPackages", 0, config.Project, "error"))
               /\ Return(Error("failed to list GitLab packages", [page |-> 1]))
               /\ UNCHANGED tagsToPackages
            \/ \E packages \in SyncPackages :
                 \/ /\ calls' = calls \o PackagesCalls(packages)
                    /\ tagsToPackages' = mapPackagesToTags(packages, releases)
                    /\ pc' = "projectImages"
                    /\ UNCHANGED errE
                 \/ \E k \in 1..Len(packages) :
                      /\ packages[k].Generic
                      /\ calls' = calls \o PackagesCalls(SubSeq(packages, 1, k - 1))
                                    \o <<Call("ListPackageFiles", 0, packages[k].Name, "error")>>
                      /\ Return(Error("failed to list GitLab files for package",
                                      [package |-> packages[k].Name, page |-> 1]))
                      /\ UNCHANGED tagsToPackages
       ELSE pc' = "projectImages" /\ UNCHANGED <<calls, errE, tagsToPackages>>
    /\ UNCHANGED <<envVars, gitlab, releases, tags, has, tagsToMilestones, tagsToImages,
                   tagsToDates, i, rel, links, extraGitLabReleases, mapVars>>

\* The position after the Upsert of the release of index k returned nil.
AfterUpsert(k) == IF k < Len(releases) THEN "Upsert" ELSE "DeleteAllExcept"

\* if hasImages: projectImages and mapImagesToTags; then mapTagsToDates, and
\* the loop over the releases starts.
SyncProjectImages ==
    /\ pc = "projectImages"
    /\ IF has.hasImages
       THEN \/ /\ calls' = Append(calls, Call("ListProjectRegistryRepositories", 0,
                                              config.Project, "error"))
               /\ Return(Error("failed to list GitLab Docker images", [page |-> 1]))
               /\ UNCHANGED <<tagsToImages, tagsToDates, i>>
            \/ \E images \in SyncImages :
                 /\ calls' = Append(calls, Call("ListProjectRegistryRepositories", 0,
                                                config.Project, "ok"))
                 /\ tagsToImages' = mapImagesToTags(images, releases)
                 /\ tagsToDates' = mapTagsToDates(tags)
                 /\ i' = 1
                 /\ pc' = AfterUpsert(0)
                 /\ UNCHANGED errE
       ELSE /\ tagsToDates' = mapTagsToDates(tags)
            /\ i' = 1
            /\ pc' = AfterUpsert(0)
            /\ UNCHANGED <<calls, errE, tagsToImages>>
    /\ UNCHANGED <<envVars, gitlab, releases, tags, has, tagsToMilestones, tagsToPackages,
                   rel, links, extraGitLabReleases, mapVars>>

\* ------------------------------------------------------------------------
\* Upsert
\* ------------------------------------------------------------------------

TwelveHours == 12

Abs(x) == IF x < 0 THEN 0 - x ELSE x

\* A slip in the guard of the create branch: the absolute value is missing.
CreateReleasedAtNoAbs(releasedAt) ==
    IF now - releasedAt[1] < TwelveHours THEN Nil ELSE releasedAt

\* The create branch: releasedAt is not provided if the release has been
\* done recently, if time.Since(*releasedAt).Abs() < 12*time.Hour.
CreateReleasedAt(releasedAt) ==
    IF Abs(now - releasedAt[1]) < TwelveHours THEN Nil ELSE releasedAt

\* A slip in the guard of the update branch: releasedAt is left as it is.
UpdateReleasedAtKeepsHint(createdAt, releasedAt) == releasedAt

\* The update branch: releasedAt is rel.CreatedAt if the GitLab release was
\* made close to releasedAt, if rel.CreatedAt.Sub(*releasedAt).Abs() <
\* 12*time.Hour.
UpdateReleasedAt(createdAt, releasedAt) ==
    IF Abs(createdAt - releasedAt[1]) < TwelveHours THEN Some(createdAt) ELSE releasedAt

\* name: the tag, and " [YANKED]" for a yanked release.
ReleaseName(release) ==
    IF release.Yanked THEN release.Tag \o <<" [YANKED]">> ELSE release.Tag

Banner == "<!-- Automatically generated by gitlab.com/tozd/gitlab/release tool. DO NOT EDIT. -->\n\n"

\* description: the banner, the Docker images if there are any, the changes.
ReleaseDescription(release, images) ==
    LET lines[k \in 0..Len(images)] ==
            IF k = 0 THEN <<>>
            ELSE lines[k - 1] \o <<"*", " ", "<96>">> \o images[k] \o <<"<96>", "\n">>
    IN  <<Banner>>
        \o (IF Len(images) > 0
            THEN <<"##### Docker images\n">> \o lines[Len(images)] \o <<"\n">>
            ELSE <<>>)
        \o release.Changes

\* The arguments of the Upsert call of Sync for the release of index i.
UpsertRelease == releases[i]

UpsertReleasedAt == MapGet(tagsToDates, releases[i].Tag)

UpsertMilestones == MapGet(tagsToMilestones, releases[i].Tag)

UpsertPackages == MapGet(tagsToPackages, releases[i].Tag)

UpsertImages == MapGet(tagsToImages, releases[i].Tag)

\* Upsert returned nil: Sync goes on with the next release.
UpsertReturnsNil ==
    /\ i' = i + 1
    /\ pc' = AfterUpsert(i)
    /\ UNCHANGED errE

\* A slip in the branch of Upsert: config.NoCreate is not looked at.
UpsertBranchIgnoresNoCreate(result, noCreate) ==
    IF result = "404" THEN "CreateRelease"
    ELSE IF result = "error" THEN "return errE"
    ELSE "UpdateRelease"

\* A slip in the branch of Upsert: a release that exists is created as well.
UpsertBranchCreatesExisting(result, noCreate) ==
    IF result = "404" \/ result = "ok"
    THEN IF noCreate THEN "return nil" ELSE "CreateRelease"
    ELSE "return errE"

\* The branch Upsert takes on the reply of GetRelease: "404" is the status
\* of a release that does not exist, "error" any other failure with a
\* response, "ok" a release that exists.
UpsertBranch(result, noCreate) ==
    IF result = "404"
    THEN IF noCreate THEN "return nil" ELSE "CreateRelease"
    ELSE IF result = "error" THEN "return errE"
    ELSE "UpdateRelease"

\* rel, response, err := client.Releases.GetRelease(config.Project, release.Tag)
\* and the branch on response.StatusCode and err.
UpsertGetRelease ==
    /\ pc = "Upsert"
    /\ LET tag == UpsertRelease.Tag
       IN  \/ \* No HTTP response at all: response is nil and is dereferenced.
              /\ calls' = Append(calls, Call("GetRelease", i, tag, "noresponse"))
              /\ pc' = "panic"
              /\ UNCHANGED <<errE, i, rel>>
           \/ \E result \in {"404", "error", "ok"} :
                /\ result = "404" => tag \notin DOMAIN gitlab.releases
                /\ result = "ok" => tag \in DOMAIN gitlab.releases
                /\ calls' = Append(calls, Call("GetRelease", i, tag, result))
                /\ rel' = IF result = "ok" THEN Some(gitlab.releases[tag]) ELSE Nil
                /\ LET branch == UpsertBranch(result, config.NoCreate)
                   IN  IF branch = "return nil" THEN UpsertReturnsNil
                       ELSE IF branch = "return errE"
                       THEN Return(Error("failed to get GitLab release for tag",
                                         [tag |-> tag])) /\ UNCHANGED i
                       ELSE pc' = branch /\ UNCHANGED <<errE, i>>
    /\ UNCHANGED <<envVars, gitlab, releases, tags, has, tagsToMilestones, tagsToPackages,
                   tagsToImages, tagsToDates, links, extraGitLabReleases, mapVars>>

\* The largest link ID of the project.
MaxLinkID(gl) ==
    LET ids == {0} \cup UNION {{l.ID : l \in gl.releases[t].Links} : t \in DOMAIN gl.releases}
    IN  CHOOSE x \in ids : \A y \in ids : y <= x

\* The links of a created release: the server numbers them.
CreatedLinks(gl, options) ==
    LET names == SortedSlice({o.Name : o \in options})
    IN  {RemoteLink(MaxLinkID(gl) + k, CHOOSE o \in options : o.Name = names[k]) :
            k \in 1..Len(names)}

\* The create branch of Upsert: the links, the released-at guard, and
\* CreateRelease.
UpsertCreateRelease ==
    /\ pc = "CreateRelease"
    /\ LET release == UpsertRelease
           expected == getExpectedLinks(UpsertPackages)
           linkOptions == {createReleaseLinkOptions(config.BaseURL, config.Project, name,
                                                    expected[name]) : name \in DOMAIN expected}
       IN  IF UpsertReleasedAt = Nil
           THEN \* *releasedAt of a nil pointer
                pc' = "panic" /\ UNCHANGED <<errE, i, calls, gitlab>>
           ELSE
           LET releasedAt == CreateReleasedAt(UpsertReleasedAt)
               options == [Name |-> ReleaseName(release), TagName |-> release.Tag,
                           Description |-> ReleaseDescription(release, UpsertImages),
                           Milestones |-> UpsertMilestones, Links |-> linkOptions,
                           ReleasedAt |-> releasedAt]
           IN  \/ /\ calls' = Append(calls, CallWith("CreateRelease", i, release.Tag,
                                                     options, "error"))
                  /\ Return(Error("failed to create GitLab release for tag",
                                  [tag |-> release.Tag]))
                  /\ UNCHANGED <<i, gitlab>>
               \/ /\ calls' = Append(calls, CallWith("CreateRelease", i, release.Tag,
                                                     options, "ok"))
                  /\ gitlab' = [gitlab EXCEPT !.releases =
                        (release.Tag :> RemoteRelease(options.Name, options.Description,
                            options.Milestones, now,
                            IF releasedAt = Nil THEN now ELSE releasedAt[1],
                            CreatedLinks(gitlab, linkOptions))) @@ @]
                  /\ UpsertReturnsNil
    /\ UNCHANGED <<envVars, releases, tags, has, tagsToMilestones, tagsToPackages,
                   tagsToImages, tagsToDates, rel, links, extraGitLabReleases, mapVars>>

\* The update branch of Upsert: the released-at guard and UpdateRelease;
\* syncLinks follows.
UpsertUpdateRelease ==
    /\ pc = "UpdateRelease"
    /\ LET release == UpsertRelease
       IN  IF UpsertReleasedAt = Nil
           THEN \* *releasedAt of a nil pointer
                pc' = "panic" /\ UNCHANGED <<errE, calls, gitlab>>
           ELSE
           LET releasedAt == UpdateReleasedAt(rel[1].CreatedAt, UpsertReleasedAt)
               options == [Name |-> ReleaseName(release),
                           Description |-> ReleaseDescription(release, UpsertImages),
                           ReleasedAt |-> releasedAt, Milestones |-> UpsertMilestones]
           IN  \/ /\ calls' = Append(calls, CallWith("UpdateRelease", i, release.Tag,
                                                     options, "error"))
                  /\ Return(Error("failed to update GitLab release for tag",
                                  [tag |-> release.Tag]))
                  /\ UNCHANGED gitlab
               \/ /\ calls' = Append(calls, CallWith("UpdateRelease", i, release.Tag,
                                                     options, "ok"))
                  /\ gitlab' = [gitlab EXCEPT !.releases[release.Tag] =
                        [@ EXCEPT !.Name = options.Name, !.Description = options.Description,
                                  !.ReleasedAt = releasedAt[1],
                                  !.Milestones = options.Milestones]]
                  /\ pc' = "syncLinks"
                  /\ UNCHANGED errE
    /\ UNCHANGED <<envVars, releases, tags, has, tagsToMilestones, tagsToPackages,
                   tagsToImages, tagsToDates, i, rel, links, extraGitLabReleases, mapVars>>

\* ------------------------------------------------------------------------
\* syncLinks
\* ------------------------------------------------------------------------

\* strings.TrimSuffix
TrimSuffix(s, suffix) ==
    IF Len(s) >= Len(suffix) /\ SubSeq(s, Len(s) - Len(suffix) + 1, Len(s)) = suffix
    THEN SubSeq(s, 1, Len(s) - Len(suffix)) ELSE s

\* The position after a step of syncLinks that left these loop positions.
\* A slip in syncLinks: the loop over the expected links comes first.
AfterLinksWritesFirst(l) ==
    IF l.toWrite # {} THEN "WriteReleaseLink"
    ELSE IF l.toDelete # {} THEN "DeleteReleaseLink"
    ELSE AfterUpsert(i)

AfterLinks(l) ==
    IF l.toDelete # {} THEN "DeleteReleaseLink"
    ELSE IF l.toWrite # {} THEN "WriteReleaseLink"
    ELSE AfterUpsert(i)

\* The step of syncLinks is done: the next one, or syncLinks and with it
\* Upsert return nil.
LinksGoOn(l) ==
    /\ links' = l
    /\ pc' = AfterLinks(l)
    /\ i' = IF l.toDelete = {} /\ l.toWrite = {} THEN i + 1 ELSE i
    /\ UNCHANGED errE

\* A slip in syncLinks: no existing link is deleted.
SyncLinksReleaseLinksKeepsAll ==
    /\ pc = "syncLinks"
    /\ LET tag == UpsertRelease.Tag
       IN  /\ calls' = Append(calls, Call("ListReleaseLinks", i, tag, "ok"))
           /\ LET remote == gitlab.releases[tag].Links
                  existingLinks ==
                      [name \in {l.Name : l \in remote} |->
                          LET l == CHOOSE l \in remote : l.Name = name
                          IN  [Name |-> name, ID |-> Some(l.ID), Package |-> Nil, File |-> Nil]]
                  expectedLinks == getExpectedLinks(UpsertPackages)
              IN  LinksGoOn([existingLinks |-> existingLinks,
                             expectedLinks |-> expectedLinks,
                             toDelete |-> {},
                             toWrite |-> DOMAIN expectedLinks])
    /\ UNCHANGED <<envVars, gitlab, releases, tags, has, tagsToMilestones, tagsToPackages,
                   tagsToImages, tagsToDates, rel, extraGitLabReleases, mapVars>>

\* A slip in syncLinks: every existing link is deleted, expected or not.
SyncLinksReleaseLinksDeletesAll ==
    /\ pc = "syncLinks"
    /\ LET tag == UpsertRelease.Tag
       IN  /\ calls' = Append(calls, Call("ListReleaseLinks", i, tag, "ok"))
           /\ LET remote == gitlab.releases[tag].Links
                  existingLinks ==
                      [name \in {l.Name : l \in remote} |->
                          LET l == CHOOSE l \in remote : l.Name = name
                          IN  [Name |-> name, ID |-> Some(l.ID), Package |-> Nil, File |-> Nil]]
                  expectedLinks == getExpectedLinks(UpsertPackages)
              IN  LinksGoOn([existingLinks |-> existingLinks,
                             expectedLinks |-> expectedLinks,
                             toDelete |-> DOMAIN existingLinks,
                             toWrite |-> DOMAIN expectedLinks])
    /\ UNCHANGED <<envVars, gitlab, releases, tags, has, tagsToMilestones, tagsToPackages,
                   tagsToImages, tagsToDates, rel, extraGitLabReleases, mapVars>>

\* links, err := releaseLinks(client, projectID, release); existingLinks and
\* expectedLinks.
SyncLinksReleaseLinks ==
    /\ pc = "syncLinks"
    /\ LET tag == UpsertRelease.Tag
       IN  \/ /\ calls' = Append(calls, Call("ListReleaseLinks", i, tag, "error"))
              /\ Return(Error("failed to list GitLab release links for tag",
                              [tag |-> tag, page |-> 1]))
              /\ UNCHANGED <<i, links>>
           \/ /\ calls' = Append(calls, Call("ListReleaseLinks", i, tag, "ok"))
              /\ LET remote == gitlab.releases[tag].Links
                     existingLinks ==
                         [name \in {l.Name : l \in remote} |->
                             LET l == CHOOSE l \in remote : l.Name = name
                             IN  [Name |-> name, ID |-> Some(l.ID), Package |-> Nil, File |-> Nil]]
                     expectedLinks == getExpectedLinks(UpsertPackages)
                 IN  LinksGoOn([existingLinks |-> existingLinks,
                                expectedLinks |-> expectedLinks,
                                toDelete |-> DOMAIN existingLinks \ DOMAIN expectedLinks,
                                toWrite |-> DOMAIN expectedLinks])
    /\ UNCHANGED <<envVars, gitlab, releases, tags, has, tagsToMilestones, tagsToPackages,
                   tagsToImages, tagsToDates, rel, extraGitLabReleases, mapVars>>

\* The first loop of syncLinks, in the order of a Go map: an existing link
\* that is not expected is deleted.
SyncLinksDeleteReleaseLink ==
    /\ pc = "DeleteReleaseLink"
    /\ \E name \in links.toDelete :
         LET tag == UpsertRelease.Tag
             id == links.existingLinks[name].ID[1]
         IN  \/ /\ calls' = Append(calls, CallWith("DeleteReleaseLink", i, tag,
                                                   [ID |-> id, Name |-> name], "error"))
                /\ Return(Error("failed to delete GitLab link", [link |-> name, release |-> tag]))
                /\ UNCHANGED <<i, links, gitlab>>
             \/ /\ calls' = Append(calls, CallWith("DeleteReleaseLink", i, tag,
                                                   [ID |-> id, Name |-> name], "ok"))
                /\ gitlab' = [gitlab EXCEPT !.releases[tag].Links = {l \in @ : l.ID # id}]
                /\ LinksGoOn([links EXCEPT !.toDelete = @ \ {name}])
    /\ UNCHANGED <<envVars, releases, tags, has, tagsToMilestones, tagsToPackages,
                   tagsToImages, tagsToDates, rel, extraGitLabReleases, mapVars>>

\* The second loop of syncLinks, for an expected link that exists: it is
\* updated by the ID of the existing link.
SyncLinksUpdateReleaseLink ==
    /\ pc = "WriteReleaseLink"
    /\ \E name \in links.toWrite :
         /\ name \in DOMAIN links.existingLinks
         /\ LET tag == UpsertRelease.Tag
                id == links.existingLinks[name].ID[1]
                options == updateReleaseLinkOptions(TrimSuffix(config.BaseURL, <<"/">>),
                               config.Project, name, links.expectedLinks[name])
            IN  \/ /\ calls' = Append(calls, CallWith("UpdateReleaseLink", i, tag,
                                                      [ID |-> id, link |-> options], "error"))
                   /\ Return(Error("failed to update GitLab link",
                                   [link |-> name, release |-> tag]))
                   /\ UNCHANGED <<i, links, gitlab>>
                \/ /\ calls' = Append(calls, CallWith("UpdateReleaseLink", i, tag,
                                                      [ID |-> id, link |-> options], "ok"))
                   /\ gitlab' = [gitlab EXCEPT !.releases[tag].Links =
                                    {l \in @ : l.ID # id} \cup {RemoteLink(id, options)}]
                   /\ LinksGoOn([links EXCEPT !.toWrite = @ \ {name}])
    /\ UNCHANGED <<envVars, releases, tags, has, tagsToMilestones, tagsToPackages,
                   tagsToImages, tagsToDates, rel, extraGitLabReleases, mapVars>>

\* The second loop of syncLinks, for an expected link that does not exist:
\* it is created.
SyncLinksCreateReleaseLink ==
    /\ pc = "WriteReleaseLink"
    /\ \E name \in links.toWrite :
         /\ name \notin DOMAIN links.existingLinks
         /\ LET tag == UpsertRelease.Tag
                options == createReleaseLinkOptions(TrimSuffix(config.BaseURL, <<"/">>),
                               config.Project, name, links.expectedLinks[name])
            IN  \/ /\ calls' = Append(calls, CallWith("CreateReleaseLink", i, tag,
                                                      [link |-> options], "error"))
                   /\ Return(Error("failed to create GitLab link",
                                   [link |-> name, release |-> tag]))
                   /\ UNCHANGED <<i, links, gitlab>>
                \/ /\ calls' = Append(calls, CallWith("CreateReleaseLink", i, tag,
                                                      [link |-> options], "ok"))
                   /\ gitlab' = [gitlab EXCEPT !.releases[tag].Links =
                                    @ \cup {RemoteLink(MaxLinkID(gitlab) + 1, options)}]
                   /\ LinksGoOn([links EXCEPT !.toWrite = @ \ {name}])
    /\ UNCHANGED <<envVars, releases, tags, has, tagsToMilestones, tagsToPackages,
                   tagsToImages, tagsToDates, rel, extraGitLabReleases, mapVars>>

\* ------------------------------------------------------------------------
\* DeleteAllExcept
\* ------------------------------------------------------------------------

\* A slip in extraGitLabReleases: sorted the other way round.
ExtraGitLabReleasesDescending(allGitLabReleases, allReleases) ==
    LET sorted == SortedSlice(allGitLabReleases \ allReleases)
    IN  [k \in 1..Len(sorted) |-> sorted[Len(sorted) + 1 - k]]

\* A slip in extraGitLabReleases: the difference taken the other way round.
ExtraGitLabReleasesSwapped(allGitLabReleases, allReleases) ==
    SortedSlice(allReleases \ allGitLabReleases)

\* extraGitLabReleases: the GitLab releases that are not among the releases,
\* sorted.
ExtraGitLabReleases(allGitLabReleases, allReleases) ==
    SortedSlice(allGitLabReleases \ allReleases)

\* ListReleases (all pages), and the sorted tags of the GitLab releases that
\* are not among the releases.
DeleteAllExceptListReleases ==
    /\ pc = "DeleteAllExcept"
    /\ \/ /\ calls' = Append(calls, Call("ListReleases", 0, config.Project, "error"))
          /\ Return(Error("failed to list GitLab releases", [page |-> 1]))
          /\ UNCHANGED extraGitLabReleases
       \/ /\ calls' = Append(calls, Call("ListReleases", 0, config.Project, "ok"))
          /\ LET allReleases == {releases[k].Tag : k \in 1..Len(releases)}
                 allGitLabReleases == DOMAIN gitlab.releases
                 extra == ExtraGitLabReleases(allGitLabReleases, allReleases)
             IN  /\ extraGitLabReleases' = extra
                 /\ IF extra = <<>> THEN Return(Nil)
                    ELSE pc' = "DeleteRelease" /\ UNCHANGED errE
    /\ UNCHANGED <<envVars, gitlab, releases, tags, has, tagsToMilestones, tagsToPackages,
                   tagsToImages, tagsToDates, i, rel, links, mapVars>>

\* The loop of DeleteAllExcept: DeleteRelease of the next tag.
DeleteAllExceptDeleteRelease ==
    /\ pc = "DeleteRelease"
    /\ LET tag == Head(extraGitLabReleases)
       IN  \/ /\ calls' = Append(calls, Call("DeleteRelease", 0, tag, "error"))
              /\ Return(Error("failed to delete GitLab release for tag", [tag |-> tag]))
              /\ UNCHANGED <<gitlab, extraGitLabReleases>>
           \/ /\ calls' = Append(calls, Call("DeleteRelease", 0, tag, "ok"))
              /\ gitlab' = [gitlab EXCEPT !.releases =
                               [t \in DOMAIN @ \ {tag} |-> @[t]]]
              /\ extraGitLabReleases' = Tail(extraGitLabReleases)
              /\ IF Tail(extraGitLabReleases) = <<>> THEN Return(Nil)
                 ELSE pc' = "DeleteRelease" /\ UNCHANGED errE
    /\ UNCHANGED <<envVars, releases, tags, has, tagsToMilestones, tagsToPackages,
                   tagsToImages, tagsToDates, i, rel, links, mapVars>>

\* Sync, from its call to its return.
Next ==
    \/ SyncChangelogReleases
    \/ SyncGitTags
    \/ SyncCompareReleasesTags
    \/ SyncInferGitLabProjectID
    \/ SyncProjectConfiguration
    \/ SyncProjectMilestones
    \/ SyncProjectPackages
    \/ SyncProjectImages
    \/ UpsertGetRelease
    \/ UpsertCreateRelease
    \/ UpsertUpdateRelease
    \/ SyncLinksReleaseLinks
    \/ SyncLinksDeleteReleaseLink
    \/ SyncLinksUpdateReleaseLink
    \/ SyncLinksCreateReleaseLink
    \/ DeleteAllExceptListReleases
    \/ DeleteAllExceptDeleteRelease

Spec == Init /\ [][Next]_vars

\* ------------------------------------------------------------------------
\* changelogReleases alone, on more changelogs
\* ------------------------------------------------------------------------

MaxChangelog == 3

ChangelogEntries ==
    { Entry(S100, Some(10), <<Heading, <<"a">>, <<"b">> >>, FALSE),
      Entry(S100rc, Some(5), <<Heading, <<"c">> >>, TRUE),
      Entry(S200, Some(20), <<Heading>>, FALSE),
      Entry(V(S100), Some(10), <<Heading, <<"a">> >>, FALSE),
      Entry(S200, Nil, <<Heading, <<"a">> >>, TRUE),
      Entry(Unreleased, Nil, <<Heading, <<"a">> >>, FALSE),
      Entry(<<"U", "N", "R", "E", "L", "E", "A", "S", "E", "D">>, Some(30), <<Heading>>, FALSE),
      Entry(<<"u", "n", "r", "e", "l", "e", "a", "s", "e", "d">>, Nil, <<Heading>>, TRUE) }

ChangelogFiles ==
    {[readable |-> TRUE, parses |-> TRUE, Releases |-> c] :
        c \in SeqsUpTo(ChangelogEntries, MaxChangelog)}
    \cup {[readable |-> FALSE, parses |-> FALSE, Releases |-> <<>>],
          [readable |-> TRUE, parses |-> FALSE, Releases |-> <<>>]}

InitEnv ==
    /\ repo = [opens |-> TRUE, Refs |-> <<>>]
    /\ config \in {c \in SyncConfigs : c.Project # <<>> /\ ~c.NoCreate}
    /\ now \in Nows
    /\ gitlab = [releases |-> <<>>]

InitChangelog ==
    /\ pc = "changelogReleases"
    /\ file \in ChangelogFiles
    /\ InitEnv
    /\ InitLocals
    /\ InitMap

SpecChangelog == InitChangelog /\ [][SyncChangelogReleases]_vars

\* ------------------------------------------------------------------------
\* compareReleasesTags alone, on all lists of releases and tags
\* ------------------------------------------------------------------------

MaxCompare == 3

CompareNames == {V(S100), V(S100rc), V(S200)}

InitCompare ==
    /\ pc = "compareReleasesTags"
    /\ file = [readable |-> TRUE, parses |-> TRUE, Releases |-> <<>>]
    /\ InitEnv
    /\ releases \in SeqsUpTo({Release(n, <<>>, FALSE) : n \in CompareNames}, MaxCompare)
    /\ tags \in SeqsUpTo({Tag(n, 10) : n \in CompareNames}, MaxCompare)
    /\ errE = Nil
    /\ calls = <<>>
    /\ has = NoFlags
    /\ tagsToMilestones = <<>>
    /\ tagsToPackages = <<>>
    /\ tagsToImages = <<>>
    /\ tagsToDates = <<>>
    /\ i = 0
    /\ rel = Nil
    /\ links = NoLinks
    /\ extraGitLabReleases = <<>>
    /\ InitMap

SpecCompare == InitCompare /\ [][SyncCompareReleasesTags]_vars

\* ------------------------------------------------------------------------
\* mapStringsToTags and mapPackagesToTags alone, one iteration of the outer
\* loops at a time
\* ------------------------------------------------------------------------

MaxInputs == 3

MaxReleases == 3

MapStrings ==
    { S100rc, S100, S200, <<"1", "-", "0", "-", "0">>, S200 \o <<"+">> \o S100,
      <<"1", "-", "0", "-", "0", "-", "r", "c", ":">> \o S100 }

MapNames == {V(S100), V(S100rc), V(S200)}

\* The packages of a test: the i-th has ID i and the i-th string as version.
AsPackages(strings) ==
    [k \in 1..Len(strings) |-> Package(k, FALSE, <<>>, <<>>, strings[k], <<>>)]

InitMapping ==
    /\ pc = "mapSort"
    /\ file = [readable |-> TRUE, parses |-> TRUE, Releases |-> <<>>]
    /\ InitEnv
    /\ releases \in SeqsUpTo({Release(n, <<>>, FALSE) : n \in MapNames}, MaxReleases)
    /\ tags = <<>>
    /\ errE = Nil
    /\ calls = <<>>
    /\ has = NoFlags
    /\ tagsToMilestones = <<>>
    /\ tagsToPackages = <<>>
    /\ tagsToImages = <<>>
    /\ tagsToDates = <<>>
    /\ i = 0
    /\ rel = Nil
    /\ links = NoLinks
    /\ extraGitLabReleases = <<>>
    /\ variant \in {"strings", "packages"}
    /\ \E strings \in SeqsUpTo(MapStrings, MaxInputs) :
         inputs = IF variant = "strings" THEN strings ELSE AsPackages(strings)
    /\ mtags = <<>>
    /\ mk = 0
    /\ mst = MapInit
    /\ slugs = <<>>

\* The sorts at the start of mapStringsToTags and mapPackagesToTags.
MapSort ==
    /\ pc = "mapSort"
    /\ mtags' = SortedTags(releases)
    /\ inputs' = IF variant = "strings" THEN SortStable(inputs, StringLess(inputs))
                 ELSE SortStable(inputs, VersionLess(inputs))
    /\ pc' = IF Len(releases) = 0 THEN "mapReturned" ELSE "mapLoop"
    /\ UNCHANGED <<envVars, gitlab, releases, tags, errE, calls, has, tagsToMilestones,
                   tagsToPackages, tagsToImages, tagsToDates, i, rel, links,
                   extraGitLabReleases, variant, mk, mst, slugs>>

\* One iteration of the loop over the tags, for one transformation.
MapStep ==
    /\ pc = "mapLoop"
    /\ mst' = MapTagStep(variant, mst, inputs, mtags, mk + 1)
    /\ mk' = mk + 1
    /\ pc' = IF mk + 1 = Len(tagTransformations) * Len(mtags) THEN "mapReturned" ELSE "mapLoop"
    /\ UNCHANGED <<envVars, gitlab, releases, tags, errE, calls, has, tagsToMilestones,
                   tagsToPackages, tagsToImages, tagsToDates, i, rel, links,
                   extraGitLabReleases, inputs, variant, mtags, slugs>>

NextMapping == MapSort \/ MapStep

SpecMapping == InitMapping /\ [][NextMapping]_vars

\* ------------------------------------------------------------------------
\* Properties
\* ------------------------------------------------------------------------

ReleaseTags == {releases[k].Tag : k \in 1..Len(releases)}

TagNames == {tags[k].Name : k \in 1..Len(tags)}

\* The calls of an operation that succeeded.
OkCalls(op) == {k \in 1..Len(calls) : calls[k].op = op /\ calls[k].result = "ok"}

\* seq lists the elements of S, each once, in ascending order.
IsSortedListOf(seq, S) ==
    /\ Range(seq) = S
    /\ \A a, b \in 1..Len(seq) : a < b => StrLess(seq[a], seq[b])

\* C1: after Sync returned nil with NoCreate unset, the tags of the releases
\* of the GitLab project are the tags of the changelog releases: every
\* changelog release was created or updated, and no other release is left.
C1_SyncMirrorsChangelog ==
    (pc = "returned" /\ errE = Nil /\ ~config.NoCreate) =>
        /\ DOMAIN gitlab.releases = ReleaseTags
        /\ \A t \in ReleaseTags :
             \E k \in OkCalls("CreateRelease") \cup OkCalls("UpdateRelease") :
                calls[k].target = t

\* A successful run that created a release, updated one and deleted one.
C1_Witness ==
    /\ pc = "returned" /\ errE = Nil /\ ~config.NoCreate
    /\ OkCalls("CreateRelease") # {}
    /\ OkCalls("UpdateRelease") # {}
    /\ OkCalls("DeleteRelease") # {}

\* C2: compareReleasesTags returns no error exactly if the set of the tags of
\* the releases is the set of the names of the git tags, whatever the order
\* of the two lists.
C2_CompareNilIffSameSets ==
    pc # "compareReleasesTags" => (errE = Nil <=> ReleaseTags = TagNames)

\* Lists of two tags and more that are equal as sets and differ in order,
\* accepted.
C2_Witness ==
    /\ pc = "InferGitLabProjectID" /\ errE = Nil
    /\ Len(releases) >= 2 /\ Len(tags) >= 2
    /\ releases[1].Tag # tags[1].Name

\* C4: the error of compareReleasesTags carries one list: the sorted
\* changelog releases that are not among the git tags if there are any, and
\* else the sorted git tags that are not among the changelog releases.
C4_CompareErrorCarriesOneList ==
    (pc = "returned" /\ errE # Nil) =>
        IF ReleaseTags \ TagNames # {}
        THEN /\ DOMAIN errE[1].details = {"releases"}
             /\ IsSortedListOf(errE[1].details.releases, ReleaseTags \ TagNames)
        ELSE /\ DOMAIN errE[1].details = {"tags"}
             /\ IsSortedListOf(errE[1].details.tags, TagNames \ ReleaseTags)

\* An error for two changelog releases without a git tag while there is a
\* git tag without a changelog release as well.
C4_Witness ==
    /\ pc = "returned" /\ errE # Nil
    /\ Cardinality(ReleaseTags \ TagNames) >= 2
    /\ TagNames \ ReleaseTags # {}

\* The releases and the tags are in one-to-one correspondence by name.
OneToOne ==
    /\ \A a \in 1..Len(releases) :
         Cardinality({b \in 1..Len(tags) : tags[b].Name = releases[a].Tag}) = 1
    /\ \A b \in 1..Len(tags) :
         Cardinality({a \in 1..Len(releases) : releases[a].Tag = tags[b].Name}) = 1

\* C3: validation passes only when the changelog releases and the git tags
\* are in one-to-one correspondence by name, so that in a run that passed
\* validation every tag is upserted once.
C3_ValidationIsOneToOne ==
    /\ pc = "InferGitLabProjectID" => OneToOne
    /\ \A t \in ReleaseTags :
         Cardinality({k \in 1..Len(calls) :
                        calls[k].op = "GetRelease" /\ calls[k].target = t}) <= 1

\* The string an input is matched by: itself, or the version of a package.
StrOf(x) == IF variant = "strings" THEN x ELSE x.Version

\* How often x is listed in the map m from tags to lists.
Occurrences(m, x) ==
    Cardinality({a \in UNION {{<<t, k>> : k \in 1..Len(m[t])} : t \in DOMAIN m} :
                    m[a[1]][a[2]] = x})

\* The strings assigned to tag t.
AssignedTo(t) == {StrOf(x) : x \in Range(MapGet(mst.tagsToInputs, t))}

\* x contains a transformed form of tag t.
Matches(x, t) ==
    \E k \in 1..Len(tagTransformations) :
        Contains(StrOf(x), Transformation(tagTransformations[k], t))

C6_MilestoneWithEveryMatchingRelease ==
    (pc = "mapReturned" /\ variant = "strings") =>
        \A x \in Range(inputs) : \A t \in Range(mtags) :
            Contains(x, removeVPrefix(t)) => x \in AssignedTo(t)

\* Tag a comes before tag b: it is longer, or as long and smaller.
TagBefore(a, b) == Len(a) > Len(b) \/ (Len(a) = Len(b) /\ StrLess(a, b))

InputStrings == {StrOf(x) : x \in Range(inputs)}

\* C7: an input that contains, for one transformation, the form of several
\* tags is assigned to the longest of them, the smallest among those of equal
\* length. With the tags v1.0.0 and v1.0.0-rc, 1.0.0-rc is assigned to
\* v1.0.0-rc and 1.0.0 to v1.0.0; with the tag v1.0.0 alone both are assigned
\* to v1.0.0 and 2.0.0 is not assigned.
C7_LongestTagFirst ==
    /\ [][ pc = "mapLoop" =>
             LET tag == mtags[(mk % Len(mtags)) + 1]
                 name == tagTransformations[(mk \div Len(mtags)) + 1]
             IN  \A x \in Range(inputs) :
                   Occurrences(mst'.tagsToInputs, x) > Occurrences(mst.tagsToInputs, x) =>
                     /\ x \in Range(mst'.tagsToInputs[tag])
                     /\ \A t \in Range(mtags) :
                          Contains(StrOf(x), Transformation(name, t)) => ~TagBefore(t, tag)
         ]_vars
    /\ [](pc = "mapReturned" =>
            /\ Range(mtags) = {V(S100), V(S100rc)} =>
                 /\ S100rc \in InputStrings =>
                      S100rc \in AssignedTo(V(S100rc)) /\ S100rc \notin AssignedTo(V(S100))
                 /\ S100 \in InputStrings => S100 \in AssignedTo(V(S100))
            /\ Range(mtags) = {V(S100)} =>
                 /\ S100rc \in InputStrings => S100rc \in AssignedTo(V(S100))
                 /\ S100 \in InputStrings => S100 \in AssignedTo(V(S100))
                 /\ S200 \notin AssignedTo(V(S100)))

\* The tags v1.0.0 and v1.0.0-rc with the inputs 1.0.0-rc and 1.0.0, mapped.
C7_Witness ==
    /\ pc = "mapReturned"
    /\ Range(mtags) = {V(S100), V(S100rc)}
    /\ {S100rc, S100} \subseteq InputStrings
    /\ S100rc \in AssignedTo(V(S100rc))

\* An entry whose version is "unreleased" in some letter case.
UnreleasedEntry(e) ==
    /\ Len(e.Version) = 10
    /\ \A k \in 1..10 :
         e.Version[k] \in {<<"u", "n", "r", "e", "l", "e", "a", "s", "e", "d">>[k],
                           <<"U", "N", "R", "E", "L", "E", "A", "S", "E", "D">>[k]}

ReleasedEntry(e) == ~UnreleasedEntry(e)

\* The lines of a body behind its heading, each but the last followed by a
\* newline.
BodyWithoutHeading(body) ==
    LET rest[k \in 1..Len(body)] ==
            IF k = Len(body) THEN <<>>
            ELSE IF k = Len(body) - 1 THEN body[k + 1]
            ELSE body[k + 1] \o <<"\n">> \o rest[k + 1]
    IN  rest[1]

\* C8: for a changelog that was read and parsed, changelogReleases returns an
\* error and no releases exactly if an entry that is not an "unreleased" one
\* (in any letter case) has a version that starts with "v" or has no date;
\* otherwise it returns, in the order of the changelog, one release for each
\* such entry, with the tag "v" and the version, the body without its
\* heading, and the yanked mark of the entry.
C8_ChangelogReleases ==
    (pc # "changelogReleases" /\ file.readable /\ file.parses) =>
        LET kept == SelectSeq(file.Releases, ReleasedEntry)
        IN  IF \E k \in 1..Len(kept) : kept[k].Version[1] = "v" \/ kept[k].Date = Nil
            THEN errE # Nil /\ releases = <<>>
            ELSE /\ errE = Nil
                 /\ Len(releases) = Len(kept)
                 /\ \A k \in 1..Len(kept) :
                      /\ releases[k].Tag = <<"v">> \o kept[k].Version
                      /\ releases[k].Tag[2] # "v"
                      /\ releases[k].Changes = BodyWithoutHeading(kept[k].Body)
                      /\ releases[k].Yanked = kept[k].Yanked

\* Two releases returned for a changelog that has an unreleased entry without
\* a date, in capitals or not.
C8_Witness ==
    /\ pc = "gitTags" /\ errE = Nil
    /\ Len(releases) = 2
    /\ \E k \in 1..Len(file.Releases) :
         /\ file.Releases[k].Version[1] = "U"
         /\ file.Releases[k].Date = Nil

FormatErrors ==
    { "release in the changelog starts with \"v\", but it should not",
      "release in the changelog is missing date" }

ConsistencyErrors ==
    { "found changelog releases not among git tags",
      "found git tags not among changelog releases" }

\* C9: with an error of the changelog format or of the comparison of the
\* changelog releases and the git tags, no GitLab API call has been issued.
C9_NoCallBeforeValidation ==
    (errE # Nil /\ errE[1].msg \in FormatErrors \cup ConsistencyErrors) => calls = <<>>

\* A run that ended with a consistency error, the project having releases.
C9_Witness ==
    /\ pc = "returned" /\ errE # Nil
    /\ errE[1].msg \in ConsistencyErrors
    /\ DOMAIN gitlab.releases # {}

LinkOps == {"ListReleaseLinks", "DeleteReleaseLink", "UpdateReleaseLink", "CreateReleaseLink"}

\* C10: an Upsert call issues one GetRelease, first, and then at most one of
\* CreateRelease and UpdateRelease: CreateRelease only after a 404 and with
\* NoCreate unset, and nothing after it; UpdateRelease only for a release
\* that exists; the links are synchronized only after UpdateRelease.
C10_UpsertOneLookupOneMutation ==
    \A j \in 1..Len(releases) :
        LET InUpsert(c) == c.i = j
            cs == SelectSeq(calls, InUpsert)
            at(op) == {k \in 1..Len(cs) : cs[k].op = op}
        IN  cs # <<>> =>
              /\ at("GetRelease") = {1}
              /\ Cardinality(at("CreateRelease") \cup at("UpdateRelease")) <= 1
              /\ at("CreateRelease") # {} =>
                    cs[1].result = "404" /\ ~config.NoCreate /\ Len(cs) = 2
              /\ at("UpdateRelease") # {} =>
                    cs[1].result = "ok" /\ at("UpdateRelease") = {2}
              /\ \A k \in 1..Len(cs) :
                    cs[k].op \in LinkOps =>
                        k > 2 /\ cs[2].op = "UpdateRelease" /\ cs[2].result = "ok"

\* A run that created one release and updated another and its links.
C10_Witness ==
    /\ pc = "returned" /\ errE = Nil
    /\ \E j, k \in 1..Len(calls) :
         /\ calls[j].op = "CreateRelease" /\ calls[j].result = "ok"
         /\ calls[k].op = "DeleteReleaseLink" /\ calls[k].result = "ok"
         /\ calls[j].i # calls[k].i


\* The calls of the Upsert of the release of index j.
UpsertCalls(j) ==
    LET InUpsert(c) == c.i = j
    IN  SelectSeq(calls, InUpsert)

\* C11: with config.NoCreate no CreateRelease is issued; for a release that
\* GitLab does not have, Upsert issues the lookup and nothing else and the
\* run goes on; a release that GitLab has is still updated; and after a run
\* that returned nil every GitLab release is a changelog release, the others
\* having been deleted.
C11_NoCreate ==
    config.NoCreate =>
        /\ \A k \in 1..Len(calls) : calls[k].op # "CreateRelease"
        /\ \A k \in 1..Len(calls) :
             (calls[k].op = "GetRelease" /\ calls[k].result = "404") =>
                 /\ UpsertCalls(calls[k].i) = <<calls[k]>>
                 /\ k = Len(calls) => errE = Nil /\ pc \in {"Upsert", "DeleteAllExcept"}
        /\ (pc = "returned" /\ errE = Nil) =>
             /\ \A k \in 1..Len(calls) :
                  (calls[k].op = "GetRelease" /\ calls[k].result = "ok") =>
                      \E u \in OkCalls("UpdateRelease") : calls[u].i = calls[k].i
             /\ DOMAIN gitlab.releases \subseteq ReleaseTags

\* A run with config.NoCreate that skipped a release, updated another and
\* deleted a third.
C11_Witness ==
    /\ config.NoCreate
    /\ pc = "returned" /\ errE = Nil
    /\ \E k \in 1..Len(calls) : calls[k].op = "GetRelease" /\ calls[k].result = "404"
    /\ OkCalls("UpdateRelease") # {}
    /\ OkCalls("DeleteRelease") # {}
    /\ ReleaseTags \ DOMAIN gitlab.releases # {}


\* ------------------------------------------------------------------------
\* Upsert alone: one release synchronized, and again, with the same
\* milestones, packages and images, for dates around the current time
\* ------------------------------------------------------------------------

MaxUpserts == 2

HintSpread == 13

\* The dates of the tag: 48 hours old, and those around the current time.
UpsertHints(t) == {t - 48} \cup ((t - HintSpread)..(t + HintSpread))

\* The GitLab project: without the release, or with it, made about twelve
\* hours before or after the date of the tag, with links or without.
UpsertRemotes(tag, hint) ==
    {[releases |-> <<>>]}
    \cup {[releases |-> tag :> RemoteRelease(<<"o">>, <<"o">>, <<>>, createdAt, createdAt, ls)] :
            createdAt \in {hint - TwelveHours, hint - TwelveHours + 1,
                           hint + TwelveHours - 1, hint + TwelveHours},
            ls \in {{}, {RemoteLink(1, StaleLink), RemoteLink(2, AppLink)}}}

\* The configurations of Upsert: the base URL with and without a trailing
\* "/", creating releases or not.
UpsertConfigs ==
    {c \in SyncConfigs : c.Project # <<>>}
        \cup {[Project |-> ProjectID, BaseURL |-> BaseURL \o <<"/">>, NoCreate |-> FALSE]}

InitUpsert ==
    /\ pc = "Upsert"
    /\ file = [readable |-> TRUE, parses |-> TRUE, Releases |-> <<>>]
    /\ repo = [opens |-> TRUE, Refs |-> <<>>]
    /\ config \in UpsertConfigs
    /\ now \in Nows
    /\ \E n \in 1..MaxUpserts, hint \in UpsertHints(now) :
         LET release == Release(V(S100), <<"a">>, FALSE)
         IN  /\ releases = [k \in 1..n |-> release]
             /\ tags = <<Tag(release.Tag, hint)>>
             /\ tagsToDates = mapTagsToDates(tags)
             /\ gitlab \in UpsertRemotes(release.Tag, hint)
             /\ tagsToMilestones \in {<<>>, release.Tag :> <<S100>>}
             /\ \E packages \in SyncPackages :
                  tagsToPackages \in {<<>>, mapPackagesToTags(packages, releases)}
             /\ tagsToImages = <<>>
    /\ errE = Nil
    /\ calls = <<>>
    /\ has = NoFlags
    /\ i = 1
    /\ rel = Nil
    /\ links = NoLinks
    /\ extraGitLabReleases = <<>>
    /\ InitMap

NextUpsert ==
    \/ UpsertGetRelease
    \/ UpsertCreateRelease
    \/ UpsertUpdateRelease
    \/ SyncLinksReleaseLinks
    \/ SyncLinksDeleteReleaseLink
    \/ SyncLinksUpdateReleaseLink
    \/ SyncLinksCreateReleaseLink

SpecUpsert == InitUpsert /\ [][NextUpsert]_vars


\* The date of the tag of the release that is synchronized.
Hint == tagsToDates[releases[1].Tag][1]

\* The positions of the calls of an operation in a list of calls.
CallsOf(cs, op) == {k \in 1..Len(cs) : cs[k].op = op}

C13_CreateOmitsRecentDate ==
    \A k \in 1..Len(calls) :
        calls[k].op = "CreateRelease" =>
            LET releasedAt == calls[k].options.ReleasedAt
            IN  /\ releasedAt = Nil <=> (now - 12 < Hint /\ Hint < now + 12)
                /\ releasedAt # Nil => releasedAt = Some(Hint)
                /\ Hint = now - 1 => releasedAt = Nil
                /\ Hint = now + 11 => releasedAt = Nil
                /\ Hint = now - 48 => releasedAt = Some(now - 48)

\* A release was created whose tag is dated 12 hours ahead or more.
C13_Witness ==
    /\ Hint >= now + 12
    /\ \E k \in OkCalls("CreateRelease") : calls[k].options.ReleasedAt = Some(Hint)

\* The date GitLab keeps as released-at for a CreateRelease call.
ReleasedAtOfCreate(c) ==
    IF c.options.ReleasedAt = Nil THEN now ELSE c.options.ReleasedAt[1]

\* C14: the UpdateRelease call carries the creation date of the GitLab
\* release if that is less than 12 hours away from the date of the tag, and
\* the date of the tag otherwise; so all UpdateRelease calls for a release
\* carry the same date, and after a CreateRelease of the tool they carry the
\* released-at date the creation gave the release.
C14_UpdateWritesSameDate ==
    \A k \in 1..Len(calls) :
        calls[k].op = "UpdateRelease" =>
            LET releasedAt == calls[k].options.ReleasedAt
                createdAt == gitlab.releases[calls[k].target].CreatedAt
            IN  /\ releasedAt = IF createdAt - 12 < Hint /\ Hint < createdAt + 12
                                THEN Some(createdAt) ELSE Some(Hint)
                /\ \A u \in 1..Len(calls) :
                     calls[u].op = "UpdateRelease" => calls[u].options.ReleasedAt = releasedAt
                /\ \A c \in OkCalls("CreateRelease") :
                     releasedAt = Some(ReleasedAtOfCreate(calls[c]))

\* A release was created without a date, for a tag that is a few hours old,
\* and then updated.
C14_Witness ==
    /\ Hint < now
    /\ \E c \in OkCalls("CreateRelease") : calls[c].options.ReleasedAt = Nil
    /\ OkCalls("UpdateRelease") # {}


\* The GitLab releases that are not changelog releases.
Extra == DOMAIN gitlab.releases \ ReleaseTags

\* C15: every DeleteRelease call is for the smallest tag, in the order of
\* strings, among the GitLab releases that are not changelog releases, and
\* removes that release and nothing else; when DeleteAllExcept returned nil
\* no such release is left. So each of them is deleted once, in ascending
\* order, and no changelog release is deleted, created in this run or not.
C15_DeleteAllExcept ==
    /\ [][ (Len(calls') > Len(calls) /\ calls'[Len(calls')].op = "DeleteRelease") =>
              LET c == calls'[Len(calls')]
              IN  /\ c.target \in Extra
                  /\ \A t \in Extra : ~StrLess(t, c.target)
                  /\ \A k \in 1..Len(calls) :
                       calls[k].op = "DeleteRelease" => StrLess(calls[k].target, c.target)
                  /\ gitlab'.releases =
                       IF c.result = "ok"
                       THEN [t \in DOMAIN gitlab.releases \ {c.target} |-> gitlab.releases[t]]
                       ELSE gitlab.releases
         ]_vars
    /\ []((pc = "returned" /\ errE = Nil) => Extra = {})

\* A run that created a release and then deleted two others.
C15_Witness ==
    /\ pc = "returned" /\ errE = Nil
    /\ OkCalls("CreateRelease") # {}
    /\ Cardinality(OkCalls("DeleteRelease")) = 2


\* The results of a call that failed; "404" is the reply of GetRelease for a
\* release that does not exist, which Upsert expects.
Failed == {"error", "noresponse"}

\* The part of C16 that holds for every call that failed with a response.
FailFastWithResponse ==
    /\ [][ (Len(calls') > Len(calls) /\ calls'[Len(calls')].result = "error") =>
              gitlab' = gitlab ]_vars
    /\ [](\A k \in 1..Len(calls) :
            calls[k].result = "error" => k = Len(calls) /\ pc = "returned" /\ errE # Nil)

\* C16: a GitLab API call that failed is the last call of the run, and Sync
\* returns an error; the failing call leaves the GitLab project as the calls
\* before it made it.
C16_FailFast ==
    /\ [][ (Len(calls') > Len(calls) /\ calls'[Len(calls')].result \in Failed) =>
              gitlab' = gitlab ]_vars
    /\ [](\A k \in 1..Len(calls) :
            calls[k].result \in Failed => k = Len(calls) /\ pc = "returned" /\ errE # Nil)

\* C17: Upsert issues CreateRelease only after a lookup that was answered
\* with 404; after a lookup that failed in another way, with a response or
\* without, Upsert issues no further call and returns an error with the tag
\* of the release.
C17_OnlyNotFoundCreates ==
    \A k \in 1..Len(calls) :
        /\ calls[k].op = "CreateRelease" => UpsertCalls(calls[k].i)[1].result = "404"
        /\ (calls[k].op = "GetRelease" /\ calls[k].result \in Failed) =>
              /\ k = Len(calls)
              /\ pc = "returned"
              /\ errE # Nil
              /\ errE[1].details.tag = calls[k].target


\* The positions in calls of the calls of an operation.
Issued(op) == {k \in 1..Len(calls) : calls[k].op = op}

\* C18: GetProject is the first call of a run and is issued once;
\* ListMilestones is issued only with hasIssues, ListProjectPackages and
\* ListPackageFiles only with hasPackages, ListProjectRegistryRepositories
\* only with hasImages; and without the flag every release is created or
\* updated with no milestones, with no links, or with no Docker images in its
\* description.
C18_FeatureFlags ==
    /\ calls # <<>> => Issued("GetProject") = {1}
    /\ Issued("ListMilestones") # {} => has.hasIssues
    /\ Issued("ListProjectPackages") \cup Issued("ListPackageFiles") # {} => has.hasPackages
    /\ Issued("ListProjectRegistryRepositories") # {} => has.hasImages
    /\ ~has.hasIssues =>
         /\ tagsToMilestones = <<>>
         /\ \A k \in Issued("CreateRelease") \cup Issued("UpdateRelease") :
              calls[k].options.Milestones = <<>>
    /\ ~has.hasPackages =>
         /\ tagsToPackages = <<>>
         /\ \A k \in Issued("CreateRelease") : calls[k].options.Links = {}
         /\ Issued("CreateReleaseLink") \cup Issued("UpdateReleaseLink") = {}
    /\ ~has.hasImages =>
         /\ tagsToImages = <<>>
         /\ \A k \in Issued("CreateRelease") \cup Issued("UpdateRelease") :
              calls[k].options.Description = <<Banner>> \o releases[calls[k].i].Changes

\* A run for a project with issues and without packages and images, in
\* which a release was created with a milestone.
C18_Witness ==
    /\ pc = "returned" /\ errE = Nil
    /\ has.hasIssues /\ ~has.hasPackages /\ ~has.hasImages
    /\ Issued("ListMilestones") # {}
    /\ \E k \in OkCalls("CreateRelease") : calls[k].options.Milestones # <<>>


\* ------------------------------------------------------------------------
\* slugify alone, applied to a string and to its results
\* ------------------------------------------------------------------------

MaxAffix == 2

MaxOver == 1

MaxSlugs == 3

SlugChars == {"Z", "5", "-", "."}

\* The lengths of the run of one character in the middle of a string: none,
\* and those that make the string about as long as slugMaxLength.
SlugRuns == {0} \cup ((slugMaxLength - MaxAffix)..(slugMaxLength + MaxOver))

InitSlug ==
    /\ pc = "slugify"
    /\ file = [readable |-> TRUE, parses |-> TRUE, Releases |-> <<>>]
    /\ InitEnv
    /\ InitLocals
    /\ inputs = <<>>
    /\ variant = "strings"
    /\ mtags = <<>>
    /\ mk = 0
    /\ mst = MapInit
    /\ \E a, b \in SeqsUpTo(SlugChars, MaxAffix), c \in {"a", "-"}, n \in SlugRuns :
         slugs = <<a \o [k \in 1..n |-> c] \o b>>

\* slugify applied to the last result.
Slugify ==
    /\ pc = "slugify"
    /\ slugs' = Append(slugs, slugify(slugs[Len(slugs)]))
    /\ pc' = IF Len(slugs') = MaxSlugs THEN "slugified" ELSE "slugify"
    /\ UNCHANGED <<envVars, gitlab, releases, tags, errE, calls, has, tagsToMilestones,
                   tagsToPackages, tagsToImages, tagsToDates, i, rel, links,
                   extraGitLabReleases, inputs, variant, mtags, mk, mst>>

SpecSlug == InitSlug /\ [][Slugify]_vars

\* C19: slugify applied to a result of slugify returns it unchanged.
C19_SlugifyIdempotent ==
    \A k \in 3..Len(slugs) : slugs[k] = slugs[2]

\* A string longer than slugMaxLength that is cut right behind a "-", and
\* slugify applied to its slug.
C19_Witness ==
    /\ Len(slugs) >= 3
    /\ Len(slugs[1]) > slugMaxLength
    /\ slugs[1][slugMaxLength] = "-"
    /\ slugs[2] # slugs[1]

\* The characters a slug is made of.
SlugAlphabet ==
    { "a", "b", "c", "d", "e", "f", "g", "h", "i", "j", "k", "l", "m", "n", "o", "p", "q",
      "r", "s", "t", "u", "v", "w", "x", "y", "z",
      "0", "1", "2", "3", "4", "5", "6", "7", "8", "9", "-" }

\* C20: a result of slugify has at most 63 characters, all of them among
\* a-z, 0-9 and "-", and has no "-" at its start or at its end, also when it
\* was cut to 63 characters in front of a "-".
C20_SlugShape ==
    \A k \in 2..Len(slugs) :
        LET r == slugs[k]
        IN  /\ Len(r) <= 63
            /\ \A j \in 1..Len(r) : r[j] \in SlugAlphabet
            /\ r # <<>> => r[1] # "-" /\ r[Len(r)] # "-"

\* A string whose 63rd character becomes a "-", with a letter behind it: the
\* slug is shorter than 63 characters.
C20_Witness ==
    /\ Len(slugs) >= 2
    /\ Len(slugs[1]) > slugMaxLength
    /\ slugs[1][slugMaxLength] \in {"-", "."}
    /\ slugs[1][Len(slugs[1])] = "Z"
    /\ slugs[2] # <<>>
    /\ Len(slugs[2]) < slugMaxLength


\* What a character becomes: a capital its small letter, a small letter or
\* a digit itself, any other character "-".
SlugChar(c) ==
    IF \E k \in 1..26 : Uppers[k] = c THEN Lowers[CHOOSE k \in 1..26 : Uppers[k] = c]
    ELSE IF c \in SlugAlphabet \ {"-"} THEN c
    ELSE "-"

\* The first characters of t, at most 63.
Cut63(t) == SubSeq(t, 1, IF Len(t) > 63 THEN 63 ELSE Len(t))

\* r is t without the run of "-" at its start and the one at its end.
IsTrimOf(r, t) ==
    /\ r # <<>> => r[1] # "-" /\ r[Len(r)] # "-"
    /\ \E a \in 0..Len(t) :
         /\ a + Len(r) <= Len(t)
         /\ r = SubSeq(t, a + 1, a + Len(r))
         /\ \A j \in 1..Len(t) : (j <= a \/ j > a + Len(r)) => t[j] = "-"

\* t with every run of "-" made one "-".
OneForRun(t) ==
    LET keep == {j \in 1..Len(t) : t[j] # "-" \/ j = 1 \/ t[j - 1] # "-"}
        nth[k \in 1..Cardinality(keep)] ==
            CHOOSE j \in keep : Cardinality({m \in keep : m < j}) = k - 1
    IN  [k \in 1..Cardinality(keep) |-> t[nth[k]]]

\* C21, as the code has it: slugify makes every capital a small letter,
\* replaces every character outside [a-z0-9] by a "-" of its own (two such
\* characters side by side give two "-"), keeps the first 63 characters and
\* then removes the runs of "-" at the start and at the end.
C21_SlugifyPerCharacter ==
    Len(slugs) >= 2 =>
        IsTrimOf(slugs[2], Cut63([j \in 1..Len(slugs[1]) |-> SlugChar(slugs[1][j])]))

\* C21, as stated: every run of characters outside [a-z0-9] is replaced by
\* one "-", before the first 63 characters are kept and the runs of "-" at
\* the start and at the end are removed.
C21_SlugifyPerRun ==
    Len(slugs) >= 2 =>
        IsTrimOf(slugs[2],
                 Cut63(OneForRun([j \in 1..Len(slugs[1]) |-> SlugChar(slugs[1][j])])))

\* A string with two characters outside [a-z0-9] side by side between a
\* letter and a digit, and its slug.
C21_Witness ==
    /\ Len(slugs) >= 2
    /\ Len(slugs[1]) = 4
    /\ slugs[1][1] = "Z" /\ slugs[1][4] = "5"
    /\ slugs[1][2] = "." /\ slugs[1][3] \in {".", "-"}


\* The names of the links expected for packages: name/file for every file of
\* a generic package, the name of every other package.
ExpectedNames(packages) ==
    UNION {IF packages[k].Generic
           THEN {packages[k].Name \o <<"/">> \o packages[k].Files[j] :
                    j \in 1..Len(packages[k].Files)}
           ELSE {packages[k].Name} : k \in 1..Len(packages)}

\* The call issued by this step, if it is one of the operation.
Issues(op) == Len(calls') > Len(calls) /\ calls'[Len(calls')].op = op

\* C22: syncLinks deletes an existing link, by its ID, only if no expected
\* link has its name; it updates an expected link by the ID of the existing
\* link of the same name, and creates an expected link only if no existing
\* link has its name; and once syncLinks returned nil the names of the links
\* of the release are the names of the expected links.
C22_SyncLinksByName ==
    /\ [][ LET c == calls'[Len(calls')]
               existing == gitlab.releases[c.target].Links
               expected == ExpectedNames(MapGet(tagsToPackages, c.target))
           IN  /\ Issues("DeleteReleaseLink") =>
                    /\ c.options.Name \notin expected
                    /\ \E l \in existing : l.ID = c.options.ID /\ l.Name = c.options.Name
               /\ Issues("UpdateReleaseLink") =>
                    /\ c.options.link.Name \in expected
                    /\ \E l \in existing : l.ID = c.options.ID /\ l.Name = c.options.link.Name
               /\ Issues("CreateReleaseLink") =>
                    /\ c.options.link.Name \in expected
                    /\ \A l \in existing : l.Name # c.options.link.Name
         ]_vars
    /\ [](\A j \in 1..(i - 1) :
            (\E k \in CallsOf(UpsertCalls(j), "UpdateRelease") : UpsertCalls(j)[k].result = "ok") =>
                {l.Name : l \in gitlab.releases[releases[j].Tag].Links}
                    = ExpectedNames(MapGet(tagsToPackages, releases[j].Tag)))

\* syncLinks returned nil after it deleted a link, updated one and created
\* one.
C22_Witness ==
    /\ i = 2
    /\ \E d, u, c \in 1..Len(calls) :
         /\ calls[d].op = "DeleteReleaseLink" /\ calls[d].i = 1
         /\ calls[u].op = "UpdateReleaseLink" /\ calls[u].i = 1
         /\ calls[c].op = "CreateReleaseLink" /\ calls[c].i = 1


\* ------------------------------------------------------------------------
\* getExpectedLinks alone, on the packages of one release
\* ------------------------------------------------------------------------

MaxPackages == 3

\* Packages associated with the release v1.0.0: two versions of a generic
\* package with a file of the same name, two versions of another package, and
\* a generic package without files.
LinkPackages ==
    { Package(1, TRUE, <<"/", "p", "/", "1">>, <<"a", "p", "p">>, S100, << <<"x">>, <<"y">> >>),
      Package(2, TRUE, <<"/", "p", "/", "2">>, <<"a", "p", "p">>, S100rc, << <<"x">> >>),
      Package(3, FALSE, <<"/", "p", "/", "3">>, <<"l", "i", "b">>, S100, <<>>),
      Package(4, FALSE, <<"/", "p", "/", "4">>, <<"l", "i", "b">>, S100rc, <<>>),
      Package(5, TRUE, <<"/", "p", "/", "5">>, <<"d", "o", "c">>, S100, <<>>) }

InitLinks ==
    /\ pc = "getExpectedLinks"
    /\ file = [readable |-> TRUE, parses |-> TRUE, Releases |-> <<>>]
    /\ InitEnv
    /\ releases = <<Release(V(S100), <<>>, FALSE)>>
    /\ tags = <<>>
    /\ errE = Nil
    /\ calls = <<>>
    /\ has = NoFlags
    /\ tagsToMilestones = <<>>
    /\ \E packages \in SeqsUpTo(LinkPackages, MaxPackages) :
         /\ \A a, b \in 1..Len(packages) : packages[a].ID = packages[b].ID => a = b
         /\ tagsToPackages = V(S100) :> packages
    /\ tagsToImages = <<>>
    /\ tagsToDates = <<>>
    /\ i = 1
    /\ rel = Nil
    /\ links = NoLinks
    /\ extraGitLabReleases = <<>>
    /\ InitMap

\* expectedLinks := getExpectedLinks(packages)
GetExpectedLinks ==
    /\ pc = "getExpectedLinks"
    /\ links' = [links EXCEPT !.expectedLinks = getExpectedLinks(UpsertPackages)]
    /\ pc' = "expectedLinks"
    /\ UNCHANGED <<envVars, gitlab, releases, tags, errE, calls, has, tagsToMilestones,
                   tagsToPackages, tagsToImages, tagsToDates, i, rel, extraGitLabReleases,
                   mapVars>>

SpecLinks == InitLinks /\ [][GetExpectedLinks]_vars

\* The number of links the packages ask for: one for every file of a generic
\* package, one for every other package.
LinksAskedFor(packages) ==
    LET n[k \in 0..Len(packages)] ==
            IF k = 0 THEN 0
            ELSE n[k - 1] + (IF packages[k].Generic THEN Len(packages[k].Files) ELSE 1)
    IN  n[Len(packages)]

\* C23: the expected links of the packages of a release are one link for
\* every file of every generic package, named name/file, and one link for
\* every other package, named as the package; there are as many links as
\* such files and packages, and each of them has its link.
C23_LinkForEveryFileAndPackage ==
    pc = "expectedLinks" =>
        LET packages == UpsertPackages
            expected == links.expectedLinks
        IN  /\ Cardinality(DOMAIN expected) = LinksAskedFor(packages)
            /\ \A k \in 1..Len(packages) :
                 IF packages[k].Generic
                 THEN \A j \in 1..Len(packages[k].Files) :
                        LET name == packages[k].Name \o <<"/">> \o packages[k].Files[j]
                        IN  /\ name \in DOMAIN expected
                            /\ expected[name].Package = Some(packages[k])
                            /\ expected[name].File = Some(packages[k].Files[j])
                 ELSE /\ packages[k].Name \in DOMAIN expected
                      /\ expected[packages[k].Name].Package = Some(packages[k])
                      /\ expected[packages[k].Name].File = Nil


\* The options of the link calls of syncLinks for the release of a
\* CreateRelease call.
LinksWrittenFor(c) ==
    {d.options.link : d \in {calls[k] : k \in {k \in 1..Len(calls) :
        /\ calls[k].op \in {"UpdateReleaseLink", "CreateReleaseLink"}
        /\ calls[k].target = c.target}}}

\* C24: for every configuration, the links given inline at the creation of
\* a release and the links written by syncLinks for the same release have
\* the same name, URL, file path and link type for every package and file.
C24_CreateAndSyncSameLinks ==
    \A k \in CallsOf(calls, "CreateRelease") :
        \A o \in calls[k].options.Links : \A w \in LinksWrittenFor(calls[k]) :
            o.Name = w.Name =>
                /\ o.URL = w.URL
                /\ o.FilePath = w.FilePath
                /\ o.LinkType = w.LinkType


\* The link calls of one syncLinks call: those of one Upsert.
IsLinkWrite(c) == c.op \in {"UpdateReleaseLink", "CreateReleaseLink"}

\* C25: within one syncLinks call every DeleteReleaseLink is issued before
\* any UpdateReleaseLink or CreateReleaseLink, and after a failed
\* DeleteReleaseLink that call issues no update and no creation: the failed
\* deletion is its last call.
C25_DeletesBeforeWrites ==
    \A d \in CallsOf(calls, "DeleteReleaseLink") :
        /\ \A w \in 1..Len(calls) :
             IsLinkWrite(calls[w]) /\ calls[w].i = calls[d].i => d < w
        /\ calls[d].result # "ok" =>
             /\ \A w \in 1..Len(calls) : calls[w].i = calls[d].i => ~IsLinkWrite(calls[w])
             /\ \A k \in 1..Len(calls) : calls[k].i = calls[d].i => k <= d

\* A syncLinks call that had a link to delete and links to update and to
\* create has deleted, and then written.
C25_Witness ==
    \E d, u, c \in 1..Len(calls) :
        /\ calls[d].op = "DeleteReleaseLink" /\ calls[d].result = "ok"
        /\ calls[u].op = "UpdateReleaseLink" /\ calls[u].i = calls[d].i
        /\ calls[c].op = "CreateReleaseLink" /\ calls[c].i = calls[d].i
        /\ d < u /\ d < c


\* The elements of s occur in t in the order they have in s.
InOrderOf(s, t) ==
    LET p[k \in 0..Len(s)] ==
            IF k = 0 THEN 0
            ELSE LET c == {j \in (p[k - 1] + 1)..Len(t) : t[j] = s[k]}
                 IN  IF c = {} THEN Len(t) + 1 ELSE Min(c)
    IN  p[Len(s)] <= Len(t)

\* The inputs are sorted: strings as strings, packages by version.
InputsSorted ==
    \A j \in 1..(Len(inputs) - 1) : ~StrLess(StrOf(inputs[j + 1]), StrOf(inputs[j]))

\* The forms of tag t: what the transformations make of it.
TagForms(t) == [k \in 1..Len(tagTransformations) |-> Transformation(tagTransformations[k], t)]

\* The first transformation whose form, among the forms of a tag, the input
\* x contains.
PassOf(x, forms) == Min({k \in 1..Len(forms) : Contains(StrOf(x), forms[k])})

\* The matcher returned for the tag v1.0.0 and the inputs 1.0.0-rc, 1.0.0
\* and 2.0.0, given in any order.
MatcherExample ==
    /\ pc = "mapReturned"
    /\ Range(mtags) = {V(S100)}
    /\ Len(inputs) = 3 /\ InputStrings = {S100rc, S100, S200}

\* C26 as stated: the list of every tag of the result has the order of the
\* sorted inputs, and no tag has an empty list.
C26_SortedInputOrder ==
    pc = "mapReturned" =>
        /\ InputsSorted
        /\ \A t \in DOMAIN mst.tagsToInputs :
             /\ mst.tagsToInputs[t] # <<>>
             /\ InOrderOf(mst.tagsToInputs[t], inputs)

\* C26: the list of every tag of the result is in the order the inputs were
\* met: transformation after transformation, and for one transformation in
\* the order of the sorted inputs (strings sorted as strings, packages by
\* version); no tag has an empty list. For the tag v1.0.0 and the inputs
\* 1.0.0-rc, 1.0.0 and 2.0.0 the result is v1.0.0: [1.0.0, 1.0.0-rc].
C26_PassThenInputOrder ==
    pc = "mapReturned" =>
        /\ InputsSorted
        /\ \A t \in DOMAIN mst.tagsToInputs :
             LET list == mst.tagsToInputs[t]
                 forms == TagForms(t)
                 pass == [j \in 1..Len(list) |-> PassOf(list[j], forms)]
             IN  /\ list # <<>>
                 /\ \A j \in 1..(Len(list) - 1) : pass[j] <= pass[j + 1]
                 /\ \A k \in 1..Len(tagTransformations) :
                      LET met == {j \in 1..Len(list) : pass[j] = k}
                          inPass == [j \in 1..Cardinality(met) |->
                                       list[Min(met) + j - 1]]
                      IN  met # {} => InOrderOf(inPass, inputs)
        /\ MatcherExample =>
             /\ DOMAIN mst.tagsToInputs = {V(S100)}
             /\ [k \in 1..2 |-> StrOf(mst.tagsToInputs[V(S100)][k])] = <<S100, S100rc>>
             /\ Len(mst.tagsToInputs[V(S100)]) = 2

\* The matcher returned a list with an input met for a later transformation
\* that sorts before an input met for an earlier one, and left a tag out.
C26_Witness ==
    /\ pc = "mapReturned"
    /\ \E t \in DOMAIN mst.tagsToInputs :
         \E j \in 1..(Len(mst.tagsToInputs[t]) - 1) :
            /\ PassOf(mst.tagsToInputs[t][j], TagForms(t))
                 < PassOf(mst.tagsToInputs[t][j + 1], TagForms(t))
            /\ StrLess(StrOf(mst.tagsToInputs[t][j + 1]), StrOf(mst.tagsToInputs[t][j]))
    /\ Range(mtags) \ DOMAIN mst.tagsToInputs # {}


\* The strings of the inputs: the strings themselves, or the versions of the
\* packages.
InputVersions == [k \in 1..Len(inputs) |-> StrOf(inputs[k])]

\* The versions of the packages of a result of mapPackagesToTags.
VersionsOf(m) == [t \in DOMAIN m |-> [k \in 1..Len(m[t]) |-> m[t][k].Version]]

\* What mapPackagesToTags assigns to the tags for packages with distinct IDs
\* that carry the strings of the inputs, as versions.
ByPackages ==
    IF variant = "packages" THEN VersionsOf(mst.tagsToInputs)
    ELSE VersionsOf(mapPackagesToTags(AsPackages(InputVersions), releases))

\* What mapStringsToTags assigns to the tags for the strings of the inputs.
ByStrings ==
    IF variant = "strings" THEN mst.tagsToInputs
    ELSE mapStringsToTags(InputVersions, releases)

\* The list without the repetitions of its elements.
Once(list) ==
    LET d[k \in 0..Len(list)] ==
            IF k = 0 THEN <<>>
            ELSE IF list[k] \in Range(d[k - 1]) THEN d[k - 1] ELSE Append(d[k - 1], list[k])
    IN  d[Len(list)]

\* C27 as stated: for every list of strings, repetitions included, and every
\* list of releases the two matchers assign the same versions in the same
\* order to the same tags.
C27_VariantsAgree ==
    pc = "mapReturned" =>
        LET p == ByPackages
            s == ByStrings
        IN  p = s

\* C27: the two matchers assign the same versions in the same order to the
\* same tags for every list of distinct strings and every list of releases;
\* for a string that occurs more than once mapPackagesToTags lists every
\* package that carries it and mapStringsToTags lists the string once, and
\* this is the only difference.
C27_VariantsAgreeOnDistinct ==
    pc = "mapReturned" =>
        LET p == ByPackages
            s == ByStrings
        IN  /\ DOMAIN p = DOMAIN s
            /\ \A t \in DOMAIN s : LET list == p[t] IN s[t] = Once(list)
            /\ Cardinality(Range(InputVersions)) = Len(inputs) => p = s

\* The matchers returned for inputs of which two are the same string,
\* assigned to a tag, and a third is assigned as well.
C27_Witness ==
    /\ pc = "mapReturned"
    /\ Cardinality(Range(InputVersions)) = 2 /\ Len(inputs) = 3
    /\ LET p == ByPackages
           s == ByStrings
       IN  /\ \E t \in DOMAIN p : Len(p[t]) > Len(s[t])
           /\ \A x \in Range(InputVersions) : \E t \in DOMAIN s : x \in Range(s[t])


\* Sync is in Upsert for the release i.
InUpsert ==
    pc \in {"Upsert", "CreateRelease", "UpdateRelease", "syncLinks", "DeleteReleaseLink",
            "WriteReleaseLink"}

\* gitTags has returned one Tag for every tag reference, in their order, with
\* the dates that date gives for the references; and in Upsert the hint is
\* the date of the reference of the tag of the release.
TagDatesAre(date) ==
    /\ pc = "compareReleasesTags" =>
         /\ Len(tags) = Len(repo.Refs)
         /\ \A k \in 1..Len(tags) :
              tags[k] = Tag(repo.Refs[k].Name, date[repo.Refs[k]])
    /\ InUpsert =>
         \E k \in 1..Len(repo.Refs) :
            /\ repo.Refs[k].Name = UpsertRelease.Tag
            /\ UpsertReleasedAt = Some(date[repo.Refs[k]])

C29_HintNeverNil ==
    /\ [](InUpsert =>
            /\ \A k \in 1..Len(releases) : releases[k].Tag \in DOMAIN tagsToDates
            /\ UpsertReleasedAt # Nil)
    /\ [][ (pc = "CreateRelease" \/ pc = "UpdateRelease") => pc' # "panic" ]_vars

\* Sync has passed the guard of a creation and the guard of an update, for
\* two releases.
C29_Witness ==
    /\ Len(releases) = 2
    /\ \E c, u \in 1..Len(calls) :
         /\ calls[c].op = "CreateRelease"
         /\ calls[u].op = "UpdateRelease"


\* C30: no input is assigned to a tag when there is a longer tag of which the
\* input contains a transformed form (the tag itself, without the prefix v,
\* slugified, or both), whichever transformation made the match.
C30_NoShortTagBeforeLonger ==
    pc = "mapReturned" =>
        \A t \in DOMAIN mst.tagsToInputs : \A x \in Range(mst.tagsToInputs[t]) :
            \A longer \in Range(mtags) : Len(longer) > Len(t) => ~Matches(x, longer)

====
